---- MODULE Spec2Model ----
(***************************************************************************)
(* State-machine model of the aries streaming/analytics core:              *)
(*   - StreamManager / VideoStreamProcessor   (stream_processor.py)        *)
(*   - MockStreamProcessor                    (mock_stream_processor.py)   *)
(*   - ConnectionManager                      (websocket_manager.py)       *)
(*   - MetadataConsumer                       (consumer_service.py)        *)
(*   - ConfigService, the ROI test            (config_service.py)          *)
(*   - DetectionSimulator                     (detection_simulator.py)     *)
(* Every asyncio coroutine is cut at its real suspension points: the code  *)
(* between two suspension points is one atomic action.                     *)
(***************************************************************************)
EXTENDS Integers, Sequences, FiniteSets, TLC

VARIABLES
    \* ---- StreamManager ----
    streams,        \* StreamManager.streams: camera_id -> processor (a pid)
    procs,          \* the VideoStreamProcessor objects, by pid
    hls_playlists,  \* StreamManager.hls_playlists: camera_id -> list of segments
    hls_files,      \* segment files present under /tmp (by segment_id)
    tasks,          \* the _process_stream tasks, by the pid of the start that created them
    lastOp,         \* the start_stream/stop_stream call of the last step and its result
    appended,       \* per camera, how many segments were handed to _add_hls_segment directly
    source_fails,   \* for the start_stream call of the last step: how many opens of its
                    \* source fail before one would succeed; 0 after any other step
    shared_config,  \* the StreamConfig object a caller passes to start_stream: the
                    \* camera_id it holds, and the processors that keep it as config
    \* ---- MockStreamProcessor ----
    active_streams, \* MockStreamProcessor.active_streams: camera_id -> bool
    stream_tasks,   \* MockStreamProcessor.stream_tasks: the camera ids that have an entry
    mock_tasks,     \* the _generate_mock_stream task of each camera
    mock_dir,       \* output_dir/<camera_id>: master playlist, segment files, media playlist
    mockOp,         \* the mock start_stream/stop_stream call of the last step and its result
    \* ---- ConnectionManager ----
    active_connections,   \* ConnectionManager.active_connections
    camera_subscriptions, \* ConnectionManager.camera_subscriptions, entries in dict order
    user_subscriptions,   \* ConnectionManager.user_subscriptions: user_id -> set
    sock,                 \* each WebSocket: "new", "open", "broken" (sends raise) or "closed"
    bc,                   \* the broadcast call in progress or last completed
    \* ---- MetadataConsumer ----
    client,         \* MetadataConsumer.client is set
    consumer,       \* MetadataConsumer.consumer is set
    mq,             \* topic aries-metadata-raw: each message "unsent", "pending" or "acked"
    nacks,          \* per message, how often it was negative-acknowledged
    alerts,         \* per message, the AlertEvent rows committed for it
    republished,    \* the messages with a copy sent to aries-alerts-critical
    lastIngest,     \* the message the last step of the consume loop handled, and how
    \* ---- ConfigService ----
    roi_zones,      \* ConfigService.analytics_config["roi_zones"]
    roi_query,      \* the arguments of the is_point_in_roi call made, if any
    roi_result,     \* what that call returned
    lastAnalytics,  \* the _run_analytics call made, if any, and whether it attached
                    \* a zone_entry payload to the object
    \* ---- DetectionSimulator ----
    active_detections, \* DetectionSimulator.active_detections: object id -> track
    object_counters,   \* DetectionSimulator.object_counters: camera -> class -> count
    sim_now,           \* what datetime.utcnow() returns, in seconds
    sim_sleeps,        \* how often time has passed between two detections
    lastDet,           \* the detection simulated by the last step
    cycle              \* the pass of run_simulation's while loop in progress

streamVars == <<streams, procs, hls_playlists, hls_files, tasks, lastOp, appended,
                source_fails, shared_config>>
mockVars == <<active_streams, stream_tasks, mock_tasks, mock_dir, mockOp>>
wsVars == <<active_connections, camera_subscriptions, user_subscriptions, sock, bc>>
ingestVars == <<client, consumer, mq, nacks, alerts, republished, lastIngest>>
roiVars == <<roi_zones, roi_query, roi_result, lastAnalytics>>
simVars == <<active_detections, object_counters, sim_now, sim_sleeps, lastDet, cycle>>

vars == <<streams, procs, hls_playlists, hls_files, tasks, lastOp, appended,
          source_fails, shared_config,
          active_streams, stream_tasks, mock_tasks, mock_dir, mockOp,
          active_connections, camera_subscriptions, user_subscriptions, sock, bc,
          client, consumer, mq, nacks, alerts, republished, lastIngest,
          roi_zones, roi_query, roi_result, lastAnalytics,
          active_detections, object_counters, sim_now, sim_sleeps, lastDet, cycle>>

notStream == <<mockVars, wsVars, ingestVars, roiVars, simVars>>
notMock == <<streamVars, wsVars, ingestVars, roiVars, simVars>>
notWs == <<streamVars, mockVars, ingestVars, roiVars, simVars>>
notIngest == <<streamVars, mockVars, wsVars, roiVars, simVars>>
notRoi == <<streamVars, mockVars, wsVars, ingestVars, simVars>>
notSim == <<streamVars, mockVars, wsVars, ingestVars, roiVars>>

(***************************************************************************)
(* Bounds                                                                  *)
(***************************************************************************)
MaxProcs == 2          \* VideoStreamProcessor objects / tasks alive at once
MaxFrames == 3         \* frames a single processor reads
MaxFiles == 2          \* segment files present under /tmp at once
MaxAppends == 11       \* segments handed to _add_hls_segment directly, per camera
MaxSegments == 6       \* segments a mock stream task generates
MaxConns == 2          \* WebSocket connections
MaxRedeliver == 2      \* redeliveries of one message after a negative acknowledgement
MaxAckFailures == 1    \* acknowledgements the broker refuses
MaxOpenFails == 3      \* failing opens of a source before it can be opened
MaxTracks == 2         \* object ids minted by the detection simulator
MaxCount == 2          \* value of one object counter
MaxSleeps == 2         \* times the simulator's clock is advanced
MaxZones == 2          \* zones of a configuration
MaxVertices == 4       \* entries of a zone's point list
fps == 1               \* StreamConfig.fps scaled down: a segment is due every fps * 2 frames

Cameras == {"cam1", "cam2"}
Pids == 1..MaxProcs
Conns == 1..MaxConns
Users == {"u1", "u2"}
NoUser == "none"
NoCam == "none"

(***************************************************************************)
(* Program constants                                                       *)
(***************************************************************************)
reconnect_attempts == 3
max_segments_per_playlist == 10
frame_buffer_max == 10
metadata_buffer_max == 100
reuse_window == 30
seconds_per_day == 86400

Min(a, b) == IF a < b THEN a ELSE b
Max(a, b) == IF a > b THEN a ELSE b

\* a dict without key k / with key k set to v
DictDel(d, k) == [x \in DOMAIN d \ {k} |-> d[x]]
DictSet(d, k, v) == [x \in DOMAIN d \cup {k} |-> IF x = k THEN v ELSE d[x]]

(***************************************************************************)
(* VideoStreamProcessor                                                    *)
(***************************************************************************)
\* VideoStreamProcessor.__init__
NewProcessor(c) ==
    [camera |-> c, cap |-> FALSE, is_connected |-> FALSE,
     stream_status |-> "idle", frame_count |-> 0, error_count |-> 0,
     fb |-> 0, mb |-> 0]

\* a slot that holds no processor object
Unallocated == NewProcessor(NoCam)
NoTask == [pc |-> "none", cam |-> NoCam, proc |-> 0]
NoOp == [op |-> "none", cam |-> NoCam, result |-> FALSE]

\* VideoStreamProcessor.cleanup
cleanup(p) ==
    [p EXCEPT !.cap = FALSE, !.is_connected = FALSE,
              !.stream_status = "disconnected", !.fb = 0, !.mb = 0]

\* VideoStreamProcessor.connect: one open and one test read, no retry
connect(p, srcOk) ==
    IF srcOk
    THEN [p EXCEPT !.cap = TRUE, !.is_connected = TRUE,
                   !.stream_status = "connected", !.frame_count = @ + 1]
    ELSE cleanup(p)

\* read_frame with the threshold compared by > instead of >=
read_frame_late(p, r) ==
    IF ~p.cap \/ ~p.is_connected THEN p
    ELSE IF r = "ok"
         THEN [p EXCEPT !.frame_count = @ + 1, !.error_count = 0]
         ELSE LET q == [p EXCEPT !.error_count = @ + 1]
              IN IF q.error_count > reconnect_attempts THEN cleanup(q) ELSE q

\* read_frame that keeps the error count on a successful read
read_frame_sticky(p, r) ==
    IF ~p.cap \/ ~p.is_connected THEN p
    ELSE IF r = "ok"
         THEN [p EXCEPT !.frame_count = @ + 1]
         ELSE LET q == [p EXCEPT !.error_count = @ + 1]
              IN IF q.error_count >= reconnect_attempts THEN cleanup(q) ELSE q

\* VideoStreamProcessor.read_frame; r is what cap.read() does ("ok" a frame,
\* "fail" no frame or an exception: both branches count the error alike)
read_frame(p, r) ==
    IF ~p.cap \/ ~p.is_connected THEN p
    ELSE IF r = "ok"
         THEN [p EXCEPT !.frame_count = @ + 1, !.error_count = 0]
         ELSE LET q == [p EXCEPT !.error_count = @ + 1]
              IN IF q.error_count >= reconnect_attempts THEN cleanup(q) ELSE q

\* did read_frame return a frame
GotFrame(p, r) == p.cap /\ p.is_connected /\ r = "ok"

\* VideoStreamProcessor.process_frame: the two bounded buffers
process_frame(p) ==
    [p EXCEPT !.fb = Min(@ + 1, frame_buffer_max),
              !.mb = Min(@ + 1, metadata_buffer_max)]

\* VideoStreamProcessor.generate_hls_segment: the uuid4 segment_id is a
\* name no file under /tmp has yet
generate_hls_segment(files) ==
    [segment_id |-> CHOOSE n \in 1..(Cardinality(files) + 1) :
                        n \notin files /\ \A m \in 1..(n - 1) : m \in files,
     duration |-> 2]

\* processor.config.camera_id of processor i: a processor started without
\* a config has a StreamConfig of its own, one started with the caller's
\* object reads whatever that object holds now
config_camera_id(i) ==
    IF i \in shared_config.holders THEN shared_config.camera_id ELSE procs[i].camera

\* StreamManager.get_stream_info
get_stream_info(c) ==
    IF c \notin DOMAIN streams THEN [found |-> FALSE]
    ELSE LET p == procs[streams[c]]
         IN [found |-> TRUE, camera_id |-> config_camera_id(streams[c]),
             status |-> p.stream_status,
             connected |-> p.cap /\ p.is_connected,
             frame_count |-> p.frame_count, error_count |-> p.error_count]

\* StreamManager.get_active_streams
get_active_streams == {c \in DOMAIN streams : procs[streams[c]].is_connected}

\* what get_hls_playlist returns for a camera without segments
NoText == <<>>

\* StreamManager.get_hls_playlist: the text returned, line by line
get_hls_playlist(c) ==
    IF c \notin DOMAIN hls_playlists THEN NoText
    ELSE IF hls_playlists[c] = <<>> THEN NoText
    ELSE LET playlist == hls_playlists[c]
         IN <<[tag |-> "#EXTM3U", val |-> 0],
              [tag |-> "#EXT-X-VERSION", val |-> 3],
              [tag |-> "#EXT-X-TARGETDURATION", val |-> 3]>>
            \o [k \in 1..(2 * Len(playlist)) |->
                   IF k % 2 = 1
                   THEN [tag |-> "#EXTINF", val |-> playlist[(k + 1) \div 2].duration]
                   ELSE [tag |-> "segment", val |-> playlist[k \div 2].segment_id]]
            \o <<[tag |-> "#EXT-X-ENDLIST", val |-> 0]>>

(***************************************************************************)
(* StreamManager                                                           *)
(***************************************************************************)
InitStream ==
    /\ streams = [c \in {} |-> 0]
    /\ procs = [i \in Pids |-> Unallocated]
    /\ hls_playlists = [c \in {} |-> <<>>]
    /\ hls_files = {}
    /\ tasks = [i \in Pids |-> NoTask]
    /\ lastOp = NoOp
    /\ appended = [c \in Cameras |-> 0]
    /\ source_fails = 0
    /\ shared_config = [camera_id |-> NoCam, holders |-> {}]

\* Object lifetime.  A finished task is gone.  A processor that released its
\* source and buffers and is in no registry entry is dropped once no running task holds
\* it; while a task still holds it the task only ever reads is_connected from
\* it, so its counters are not kept.
Registered(st, i) == \E c \in DOMAIN st : st[c] = i
Held(ts, i) == \E t \in Pids : ts[t].pc = "sleeping" /\ ts[t].proc = i
LiveTasks(ts) == [t \in Pids |-> IF ts[t].pc = "done" THEN NoTask ELSE ts[t]]
LiveProcs(st, ps, ts) ==
    [i \in Pids |->
        IF ps[i].cap \/ ps[i].fb > 0 \/ ps[i].mb > 0 \/ Registered(st, i) THEN ps[i]
        ELSE IF Held(ts, i) THEN [ps[i] EXCEPT !.frame_count = 0, !.error_count = 0]
        ELSE Unallocated]

\* the state after a step that leaves registry st, processors ps, playlists
\* pl, files fl and tasks ts
Commit(st, ps, pl, fl, ts) ==
    /\ streams' = st
    /\ procs' = LiveProcs(st, ps, ts)
    /\ hls_playlists' = pl
    /\ hls_files' = fl
    /\ tasks' = LiveTasks(ts)
    /\ UNCHANGED appended

FreePids == {i \in Pids : procs[i] = Unallocated /\ tasks[i] = NoTask}
NewPid == CHOOSE i \in FreePids : \A j \in FreePids : i <= j

\* start_stream without the "camera_id in self.streams" test
start_stream_unchecked(c, srcOk) ==
    IF srcOk
    THEN /\ FreePids # {}
         /\ LET pid == NewPid
            IN Commit(DictSet(streams, c, pid),
                      [procs EXCEPT ![pid] = connect(NewProcessor(c), TRUE)],
                      DictSet(hls_playlists, c, <<>>),
                      hls_files,
                      [tasks EXCEPT ![pid] = [pc |-> "created", cam |-> c, proc |-> 0]])
         /\ lastOp' = [op |-> "start", cam |-> c, result |-> TRUE]
    ELSE /\ lastOp' = [op |-> "start", cam |-> c, result |-> FALSE]
         /\ UNCHANGED <<streams, procs, hls_playlists, hls_files, tasks, appended>>

\* start_stream that enters the processor and the playlist into the
\* registries before it connects
start_stream_eager(c, srcOk) ==
    IF c \in DOMAIN streams
    THEN /\ lastOp' = [op |-> "start", cam |-> c, result |-> TRUE]
         /\ UNCHANGED <<streams, procs, hls_playlists, hls_files, tasks, appended>>
    ELSE /\ FreePids # {}
         /\ LET pid == NewPid
            IN Commit(DictSet(streams, c, pid),
                      [procs EXCEPT ![pid] = connect(NewProcessor(c), srcOk)],
                      DictSet(hls_playlists, c, <<>>),
                      hls_files,
                      IF srcOk
                      THEN [tasks EXCEPT ![pid] = [pc |-> "created", cam |-> c, proc |-> 0]]
                      ELSE tasks)
         /\ lastOp' = [op |-> "start", cam |-> c, result |-> srcOk]

\* StreamManager.start_stream: atomic, connect() has no suspension point.
\* A processor whose connect fails is dropped when the call returns.
start_stream(c, srcOk) ==
    IF c \in DOMAIN streams
    THEN /\ lastOp' = [op |-> "start", cam |-> c, result |-> TRUE]
         /\ UNCHANGED <<streams, procs, hls_playlists, hls_files, tasks, appended>>
    ELSE IF srcOk
         THEN /\ FreePids # {}
              /\ LET pid == NewPid
                 IN Commit(DictSet(streams, c, pid),
                           [procs EXCEPT ![pid] = connect(NewProcessor(c), TRUE)],
                           DictSet(hls_playlists, c, <<>>),
                           hls_files,
                           [tasks EXCEPT ![pid] = [pc |-> "created", cam |-> c, proc |-> 0]])
              /\ lastOp' = [op |-> "start", cam |-> c, result |-> TRUE]
         ELSE /\ lastOp' = [op |-> "start", cam |-> c, result |-> FALSE]
              /\ UNCHANGED <<streams, procs, hls_playlists, hls_files, tasks, appended>>

\* a start_stream call; the source of the call opens at once, or not before
\* MaxOpenFails opens of it have failed
StartStream ==
    /\ \E c \in Cameras, k \in {0, MaxOpenFails} :
         /\ start_stream(c, k = 0)
         /\ source_fails' = k
         /\ UNCHANGED shared_config
    /\ UNCHANGED notStream

\* start_stream(camera_id, stream_url, config) with the caller's StreamConfig
\* object: lines 287-288 write the camera id (and url) into that object, the
\* new processor keeps the object as its config
start_stream_config(c, srcOk) ==
    IF c \in DOMAIN streams
    THEN /\ lastOp' = [op |-> "start", cam |-> c, result |-> TRUE]
         /\ UNCHANGED <<streams, procs, hls_playlists, hls_files, tasks, appended,
                        shared_config>>
    ELSE IF srcOk
         THEN /\ FreePids # {}
              /\ LET pid == NewPid
                 IN /\ Commit(DictSet(streams, c, pid),
                              [procs EXCEPT ![pid] = connect(NewProcessor(c), TRUE)],
                              DictSet(hls_playlists, c, <<>>),
                              hls_files,
                              [tasks EXCEPT ![pid] = [pc |-> "created", cam |-> c, proc |-> 0]])
                    /\ shared_config' =
                           [camera_id |-> c,
                            holders |-> {i \in shared_config.holders :
                                            procs[i] # Unallocated} \cup {pid}]
              /\ lastOp' = [op |-> "start", cam |-> c, result |-> TRUE]
         ELSE /\ lastOp' = [op |-> "start", cam |-> c, result |-> FALSE]
              /\ shared_config' =
                     [camera_id |-> c,
                      holders |-> {i \in shared_config.holders : procs[i] # Unallocated}]
              /\ UNCHANGED <<streams, procs, hls_playlists, hls_files, tasks, appended>>

\* a start_stream call that passes the caller's StreamConfig object
StartStreamConfig ==
    /\ \E c \in Cameras, k \in {0, MaxOpenFails} :
         /\ start_stream_config(c, k = 0)
         /\ source_fails' = k
    /\ UNCHANGED notStream

\* stop_stream that deletes the registry entries without processor.cleanup()
StopRegisteredNoCleanup(c, ps, ts) ==
    Commit(DictDel(streams, c), ps, DictDel(hls_playlists, c), hls_files, ts)

\* StreamManager.stop_stream for a registered camera: cleanup, then both
\* registry entries are deleted; ps and ts are the processors and tasks the
\* caller leaves behind
StopRegistered(c, ps, ts) ==
    Commit(DictDel(streams, c),
           [ps EXCEPT ![streams[c]] = cleanup(@)],
           DictDel(hls_playlists, c),
           hls_files,
           ts)

\* StreamManager.stop_stream
stop_stream(c) ==
    IF c \notin DOMAIN streams
    THEN /\ lastOp' = [op |-> "stop", cam |-> c, result |-> FALSE]
         /\ UNCHANGED <<streams, procs, hls_playlists, hls_files, tasks, appended>>
    ELSE /\ StopRegistered(c, procs, tasks)
         /\ lastOp' = [op |-> "stop", cam |-> c, result |-> TRUE]

StopStream ==
    /\ \E c \in Cameras : stop_stream(c)
    /\ source_fails' = 0
    /\ UNCHANGED shared_config
    /\ UNCHANGED notStream

\* StreamManager._add_hls_segment: the playlist and the files after the append
AddSegmentPlaylist(pl, seg) ==
    LET grown == Append(pl, seg)
    IN IF Len(grown) > max_segments_per_playlist THEN Tail(grown) ELSE grown

AddSegmentFiles(pl, seg, files) ==
    LET grown == Append(pl, seg)
    IN IF Len(grown) > max_segments_per_playlist
       THEN (files \cup {seg.segment_id}) \ {Head(grown).segment_id}
       ELSE files \cup {seg.segment_id}

\* the processor a task works on: _process_stream looks it up by camera id
\* when it first runs and keeps it from then on
TaskProc(t) ==
    IF tasks[t].pc = "created"
    THEN (IF tasks[t].cam \in DOMAIN streams THEN streams[tasks[t].cam] ELSE 0)
    ELSE tasks[t].proc

\* _process_stream, first run, no processor registered: return
TaskNoProcessor(t) ==
    /\ tasks[t].pc = "created"
    /\ TaskProc(t) = 0
    /\ Commit(streams, procs, hls_playlists, hls_files,
              [tasks EXCEPT ![t].pc = "done"])
    /\ lastOp' = NoOp
    /\ source_fails' = 0
    /\ UNCHANGED shared_config
    /\ UNCHANGED notStream

\* _process_stream, one pass of the loop body up to asyncio.sleep(0.01);
\* r is the outcome of the read, gen whether the segment writer succeeds
TaskIterate(t) ==
    /\ tasks[t].pc \in {"created", "sleeping"}
    /\ TaskProc(t) # 0
    /\ procs[TaskProc(t)].is_connected
    /\ \E r \in {"ok", "fail"}, gen \in BOOLEAN :
         LET q == TaskProc(t)
             c == tasks[t].cam
             p1 == read_frame(procs[q], r)
             p2 == process_frame(p1)
             due == p2.frame_count % (fps * 2) = 0
             seg == generate_hls_segment(hls_files)
             pl == IF c \in DOMAIN hls_playlists THEN hls_playlists[c] ELSE <<>>
             ts == [tasks EXCEPT ![t] = [pc |-> "sleeping", cam |-> c, proc |-> q]]
         IN /\ r = "ok" => procs[q].frame_count < MaxFrames
            /\ IF GotFrame(procs[q], r)
               THEN IF due /\ gen
                    THEN /\ Cardinality(hls_files) < MaxFiles
                         /\ Commit(streams, [procs EXCEPT ![q] = p2],
                                   DictSet(hls_playlists, c, AddSegmentPlaylist(pl, seg)),
                                   AddSegmentFiles(pl, seg, hls_files), ts)
                    ELSE /\ due \/ gen
                         /\ Commit(streams, [procs EXCEPT ![q] = p2],
                                   hls_playlists, hls_files, ts)
               ELSE /\ gen
                    /\ Commit(streams, [procs EXCEPT ![q] = p1],
                              hls_playlists, hls_files, ts)
    /\ lastOp' = NoOp
    /\ source_fails' = 0
    /\ UNCHANGED shared_config
    /\ UNCHANGED notStream

\* what the finally block of _process_stream does for task t, after the
\* body left processors ps
TaskFinally(t, ps) ==
    LET c == tasks[t].cam
        ts == [tasks EXCEPT ![t].pc = "done"]
    IN IF c \in DOMAIN streams
       THEN StopRegistered(c, ps, ts)
       ELSE Commit(streams, ps, hls_playlists, hls_files, ts)

\* _process_stream, process_frame raises on the frame just read: except,
\* then the finally block
TaskException(t) ==
    /\ tasks[t].pc \in {"created", "sleeping"}
    /\ TaskProc(t) # 0
    /\ procs[TaskProc(t)].is_connected
    /\ procs[TaskProc(t)].frame_count < MaxFrames
    /\ TaskFinally(t, [procs EXCEPT ![TaskProc(t)] = read_frame(@, "ok")])
    /\ lastOp' = NoOp
    /\ source_fails' = 0
    /\ UNCHANGED shared_config
    /\ UNCHANGED notStream

\* _process_stream, the loop condition is false: the finally block
TaskExit(t) ==
    /\ tasks[t].pc \in {"created", "sleeping"}
    /\ TaskProc(t) # 0
    /\ ~procs[TaskProc(t)].is_connected
    /\ TaskFinally(t, procs)
    /\ lastOp' = NoOp
    /\ source_fails' = 0
    /\ UNCHANGED shared_config
    /\ UNCHANGED notStream

TaskStep(t) == TaskNoProcessor(t) \/ TaskIterate(t) \/ TaskException(t) \/ TaskExit(t)

NextStream ==
    \/ StartStream
    \/ StopStream
    \/ \E t \in Pids : TaskNoProcessor(t)
    \/ \E t \in Pids : TaskIterate(t)
    \/ \E t \in Pids : TaskException(t)
    \/ \E t \in Pids : TaskExit(t)

\* the sessions of callers that pass one StreamConfig object to their starts
NextConfig ==
    \/ StartStreamConfig
    \/ StopStream
    \/ \E t \in Pids : TaskNoProcessor(t)
    \/ \E t \in Pids : TaskIterate(t)
    \/ \E t \in Pids : TaskException(t)
    \/ \E t \in Pids : TaskExit(t)

\* start_stream and stop_stream called for one camera only
StartOneCamera ==
    /\ \E k \in {0, MaxOpenFails} :
         /\ start_stream("cam1", k = 0)
         /\ source_fails' = k
         /\ UNCHANGED shared_config
    /\ UNCHANGED notStream

StopOneCamera ==
    /\ stop_stream("cam1")
    /\ source_fails' = 0
    /\ UNCHANGED shared_config
    /\ UNCHANGED notStream

\* the successive sessions of one camera and their background tasks
NextSession ==
    \/ StartOneCamera
    \/ StopOneCamera
    \/ \E t \in Pids : TaskNoProcessor(t)
    \/ \E t \in Pids : TaskIterate(t)
    \/ \E t \in Pids : TaskException(t)
    \/ \E t \in Pids : TaskExit(t)

\* a start_stream call for one camera; the source of the call opens after k
\* failing opens
StartAfterFailures ==
    /\ \E k \in 0..MaxOpenFails :
         /\ start_stream("cam1", k = 0)
         /\ source_fails' = k
         /\ UNCHANGED shared_config
    /\ UNCHANGED notStream

\* the sessions of one camera whose source opens after some failing opens
NextOpen ==
    \/ StartAfterFailures
    \/ StopOneCamera
    \/ \E t \in Pids : TaskNoProcessor(t)
    \/ \E t \in Pids : TaskIterate(t)
    \/ \E t \in Pids : TaskException(t)
    \/ \E t \in Pids : TaskExit(t)

(***************************************************************************)
(* MockStreamProcessor                                                     *)
(***************************************************************************)
NoDir == [master |-> FALSE, segments |-> {}, playlist |-> <<>>]

InitMock ==
    /\ active_streams = [c \in {} |-> FALSE]
    /\ stream_tasks = {}
    /\ mock_tasks = [c \in Cameras |-> [pc |-> "none", segment_index |-> 0]]
    /\ mock_dir = [c \in Cameras |-> NoDir]
    /\ mockOp = NoOp

\* MockStreamProcessor.start_stream
mock_start_stream(c) ==
    IF c \in DOMAIN active_streams
    THEN /\ mockOp' = [op |-> "start", cam |-> c, result |-> TRUE]
         /\ UNCHANGED <<active_streams, stream_tasks, mock_tasks, mock_dir>>
    ELSE /\ active_streams' = DictSet(active_streams, c, TRUE)
         /\ mock_tasks' = [mock_tasks EXCEPT ![c] = [pc |-> "created", segment_index |-> 0]]
         /\ stream_tasks' = stream_tasks \cup {c}
         /\ mockOp' = [op |-> "start", cam |-> c, result |-> TRUE]
         /\ UNCHANGED mock_dir

MockStartStream ==
    /\ \E c \in Cameras : mock_start_stream(c)
    /\ UNCHANGED notMock

\* MockStreamProcessor.stop_stream: the flag is set to False, the entry of
\* active_streams stays; task.cancel() marks the task, which ends when the
\* event loop next turns to it
mock_stop_stream(c) ==
    IF c \notin DOMAIN active_streams
    THEN /\ mockOp' = [op |-> "stop", cam |-> c, result |-> FALSE]
         /\ UNCHANGED <<active_streams, stream_tasks, mock_tasks, mock_dir>>
    ELSE /\ active_streams' = DictSet(active_streams, c, FALSE)
         /\ IF c \in stream_tasks
            THEN /\ mock_tasks' = [mock_tasks EXCEPT ![c].pc =
                                      IF @ \in {"created", "sleeping"} THEN "cancelling" ELSE @]
                 /\ stream_tasks' = stream_tasks \ {c}
            ELSE UNCHANGED <<mock_tasks, stream_tasks>>
         /\ mockOp' = [op |-> "stop", cam |-> c, result |-> TRUE]
         /\ UNCHANGED mock_dir

MockStopStream ==
    /\ \E c \in Cameras : mock_stop_stream(c)
    /\ UNCHANGED notMock

\* MockStreamProcessor.get_stream_status
get_stream_status(c) ==
    [camera_id |-> c,
     active |-> c \in DOMAIN active_streams /\ active_streams[c],
     segments_generated |-> Cardinality(mock_dir[c].segments)]

\* _update_media_playlist starting one segment too early
update_media_playlist_wide(last_segment) ==
    LET start_segment == Max(0, last_segment - 5)
        n == last_segment + 1 - start_segment
    IN <<[tag |-> "#EXTM3U", val |-> 0],
         [tag |-> "#EXT-X-VERSION", val |-> 3],
         [tag |-> "#EXT-X-TARGETDURATION", val |-> 4],
         [tag |-> "#EXT-X-MEDIA-SEQUENCE", val |-> start_segment]>>
       \o [k \in 1..(2 * n) |->
              IF k % 2 = 1 THEN [tag |-> "#EXTINF", val |-> 4]
              ELSE [tag |-> "segment", val |-> start_segment + (k \div 2) - 1]]

\* MockStreamProcessor._update_media_playlist: the text written, line by line
update_media_playlist(last_segment) ==
    LET start_segment == Max(0, last_segment - 4)
        n == last_segment + 1 - start_segment
    IN <<[tag |-> "#EXTM3U", val |-> 0],
         [tag |-> "#EXT-X-VERSION", val |-> 3],
         [tag |-> "#EXT-X-TARGETDURATION", val |-> 4],
         [tag |-> "#EXT-X-MEDIA-SEQUENCE", val |-> start_segment]>>
       \o [k \in 1..(2 * n) |->
              IF k % 2 = 1 THEN [tag |-> "#EXTINF", val |-> 4]
              ELSE [tag |-> "segment", val |-> start_segment + (k \div 2) - 1]]

\* the segment index after a failed pass starts again at 0
next_segment_index_restart(segment_index, io) ==
    IF io = "ok" THEN segment_index + 1 ELSE 0

\* _generate_mock_stream: "segment_index += 1" is the last statement of the
\* try block before the sleep, a pass that raised leaves the index
next_segment_index(segment_index, io) ==
    IF io = "ok" THEN segment_index + 1 ELSE segment_index

\* _generate_mock_stream from where the task stands to its next suspension:
\* the master playlist on the first run, then one pass of the loop.  io says
\* which write raises, if any: the master playlist's (outside the try, the
\* task dies), the segment's or the media playlist's (caught, sleep(1), the
\* same segment_index is tried again)
MockTaskRun(c) ==
    /\ mock_tasks[c].pc \in {"created", "sleeping"}
    /\ \E io \in {"ok", "master", "segment", "playlist"} :
         LET first == mock_tasks[c].pc = "created"
             idx == mock_tasks[c].segment_index
             d0 == IF first /\ io # "master"
                   THEN [mock_dir[c] EXCEPT !.master = TRUE] ELSE mock_dir[c]
             d1 == [d0 EXCEPT !.segments = @ \cup {idx}]
             d2 == [d1 EXCEPT !.playlist = update_media_playlist(idx)]
         IN /\ io = "master" => first
            /\ IF io = "master"
               THEN /\ mock_tasks' = [mock_tasks EXCEPT ![c].pc = "done"]
                    /\ UNCHANGED mock_dir
               ELSE IF ~(c \in DOMAIN active_streams /\ active_streams[c])
               THEN /\ io = "ok"
                    /\ mock_tasks' = [mock_tasks EXCEPT ![c].pc = "done"]
                    /\ mock_dir' = [mock_dir EXCEPT ![c] = d0]
               ELSE /\ idx < MaxSegments
                    /\ mock_tasks' = [mock_tasks EXCEPT ![c] =
                           [pc |-> "sleeping",
                            segment_index |-> next_segment_index(idx, io)]]
                    /\ mock_dir' = [mock_dir EXCEPT ![c] =
                           IF io = "ok" THEN d2 ELSE IF io = "playlist" THEN d1 ELSE d0]
    /\ mockOp' = NoOp
    /\ UNCHANGED <<active_streams, stream_tasks>>
    /\ UNCHANGED notMock

\* the cancelled task is resumed with CancelledError (or never started): it ends
MockTaskCancelled(c) ==
    /\ mock_tasks[c].pc = "cancelling"
    /\ mock_tasks' = [mock_tasks EXCEPT ![c].pc = "done"]
    /\ mockOp' = NoOp
    /\ UNCHANGED <<active_streams, stream_tasks, mock_dir>>
    /\ UNCHANGED notMock

\* StreamManager._add_hls_segment called with a new segment for camera c
AddHlsSegment(c) ==
    /\ appended[c] < MaxAppends
    /\ LET seg == [segment_id |-> appended[c] + 1, duration |-> 2]
           pl == IF c \in DOMAIN hls_playlists THEN hls_playlists[c] ELSE <<>>
       IN /\ hls_playlists' = DictSet(hls_playlists, c, AddSegmentPlaylist(pl, seg))
          /\ hls_files' = AddSegmentFiles(pl, seg, hls_files)
    /\ appended' = [appended EXCEPT ![c] = @ + 1]
    /\ UNCHANGED <<streams, procs, tasks, lastOp, source_fails, shared_config>>
    /\ UNCHANGED notStream

NextMock ==
    \/ MockStartStream
    \/ MockStopStream
    \/ \E c \in Cameras : MockTaskRun(c)
    \/ \E c \in Cameras : MockTaskCancelled(c)

\* the two segment publishers: the mock generator, and the StreamManager's
\* window fed one segment after the other
NextPublish ==
    \/ MockStartStream
    \/ MockStopStream
    \/ \E c \in Cameras : MockTaskRun(c)
    \/ \E c \in Cameras : MockTaskCancelled(c)
    \/ \E c \in {"cam1"} : AddHlsSegment(c)

(***************************************************************************)
(* ConnectionManager                                                       *)
(***************************************************************************)
\* the broadcast in flight; half, camera_id and first belong to an event
\* broadcast (broadcast_detection and its like), which makes two broadcasts
\* in a row: half says which of them is running (0 for a plain broadcast),
\* first holds the connections the first of them attempted
NoBroadcast == [kind |-> "none", key |-> "none", targets |-> {}, pending |-> {},
                delivered |-> {}, failed |-> {},
                half |-> 0, camera_id |-> NoCam, first |-> {}]

InitWs ==
    /\ active_connections = {}
    /\ camera_subscriptions = <<>>
    /\ user_subscriptions = [u \in {} |-> {}]
    /\ sock = [w \in Conns |-> "new"]
    /\ bc = NoBroadcast

\* camera_subscriptions as a dict: its keys, and the set under a key
CamKeys(cs) == {cs[i].cam : i \in DOMAIN cs}
CamIndex(cs, c) == CHOOSE i \in DOMAIN cs : cs[i].cam = c
CamSet(cs, c) == IF c \in CamKeys(cs) THEN cs[CamIndex(cs, c)].subs ELSE {}
DelIndex(cs, i) == [k \in 1..(Len(cs) - 1) |-> IF k < i THEN cs[k] ELSE cs[k + 1]]

\* the camera loop of ConnectionManager.disconnect: entries are visited in
\* dict order; deleting the first entry that becomes empty makes the next
\* step of the iteration raise RuntimeError, so the entries after it are
\* never visited
RECURSIVE DiscardFromCameras(_, _)
DiscardFromCameras(cs, w) ==
    IF cs = <<>> THEN <<>>
    ELSE LET left == Head(cs).subs \ {w}
         IN IF left = {} THEN Tail(cs)
            ELSE <<[Head(cs) EXCEPT !.subs = left]>> \o DiscardFromCameras(Tail(cs), w)

\* whether that loop raises
DisconnectRaises(cs, w) == \E i \in DOMAIN cs : cs[i].subs \ {w} = {}

\* the user part of ConnectionManager.disconnect
DiscardFromUser(us, w, user_id) ==
    IF user_id # NoUser /\ user_id \in DOMAIN us
    THEN IF us[user_id] \ {w} = {} THEN DictDel(us, user_id)
         ELSE [us EXCEPT ![user_id] = @ \ {w}]
    ELSE us

\* ConnectionManager.disconnect(websocket, user_id)
disconnect(w, user_id) ==
    /\ active_connections' = active_connections \ {w}
    /\ user_subscriptions' = DiscardFromUser(user_subscriptions, w, user_id)
    /\ camera_subscriptions' = DiscardFromCameras(camera_subscriptions, w)

\* ConnectionManager.connect(websocket, user_id), called by the endpoint
\* with the token's username
connect_ws(w, u) ==
    /\ active_connections' = active_connections \cup {w}
    /\ user_subscriptions' =
           DictSet(user_subscriptions, u,
                   (IF u \in DOMAIN user_subscriptions THEN user_subscriptions[u] ELSE {})
                       \cup {w})

\* ConnectionManager.subscribe_to_camera
subscribe_to_camera(cs, w, c) ==
    IF c \in CamKeys(cs)
    THEN [cs EXCEPT ![CamIndex(cs, c)].subs = @ \cup {w}]
    ELSE Append(cs, [cam |-> c, subs |-> {w}])

\* ConnectionManager.unsubscribe_from_camera
unsubscribe_from_camera(cs, w, c) ==
    IF c \in CamKeys(cs)
    THEN IF cs[CamIndex(cs, c)].subs \ {w} = {}
         THEN DelIndex(cs, CamIndex(cs, c))
         ELSE [cs EXCEPT ![CamIndex(cs, c)].subs = @ \ {w}]
    ELSE cs

\* the username in the token a connection presents: the first two
\* connections belong to the same user
UserOf(w) == IF w <= 2 THEN "u1" ELSE "u2"

\* websocket_endpoint: the connection is accepted and registered
WsConnect ==
    /\ \E w \in Conns :
         /\ sock[w] = "new"
         /\ connect_ws(w, UserOf(w))
         /\ sock' = [sock EXCEPT ![w] = "open"]
    /\ UNCHANGED <<camera_subscriptions, bc>>
    /\ UNCHANGED notWs

\* websocket_endpoint: a "subscribe_camera" message arrives
WsSubscribe ==
    /\ \E w \in Conns, c \in Cameras :
         /\ sock[w] = "open"
         /\ camera_subscriptions' = subscribe_to_camera(camera_subscriptions, w, c)
    /\ UNCHANGED <<active_connections, user_subscriptions, sock, bc>>
    /\ UNCHANGED notWs

\* websocket_endpoint: an "unsubscribe_camera" message arrives
WsUnsubscribe ==
    /\ \E w \in Conns, c \in Cameras :
         /\ sock[w] = "open"
         /\ camera_subscriptions' = unsubscribe_from_camera(camera_subscriptions, w, c)
    /\ UNCHANGED <<active_connections, user_subscriptions, sock, bc>>
    /\ UNCHANGED notWs

\* the peer goes away: from now on send_json raises and receive_text will
\* raise WebSocketDisconnect
WsBreak ==
    /\ \E w \in Conns :
         /\ sock[w] = "open"
         /\ sock' = [sock EXCEPT ![w] = "broken"]
    /\ UNCHANGED <<active_connections, camera_subscriptions, user_subscriptions, bc>>
    /\ UNCHANGED notWs

\* websocket_endpoint: receive_text raises WebSocketDisconnect, the handler
\* calls disconnect(websocket, username) and the endpoint ends
WsEndpointDisconnect ==
    /\ \E w \in Conns :
         /\ sock[w] = "broken"
         /\ disconnect(w, UserOf(w))
         /\ sock' = [sock EXCEPT ![w] = "closed"]
    /\ UNCHANGED bc
    /\ UNCHANGED notWs

\* a camera broadcast that iterates over every connection
BroadcastTargetsAnyCamera(kind, key) ==
    IF kind \in {"all", "camera"} THEN active_connections
    ELSE IF key \in DOMAIN user_subscriptions THEN user_subscriptions[key] ELSE {}

\* the list a broadcast call iterates over: broadcast_message,
\* broadcast_to_camera_subscribers, broadcast_to_user_subscribers
BroadcastTargets(kind, key) ==
    IF kind = "all" THEN active_connections
    ELSE IF kind = "camera" THEN CamSet(camera_subscriptions, key)
    ELSE IF key \in DOMAIN user_subscriptions THEN user_subscriptions[key] ELSE {}

\* a broadcast call up to asyncio.gather: the members are copied into a list
\* and one send_personal_message is created per member (none, and the call
\* returns, when the scope is empty or unknown)
BroadcastStart ==
    /\ bc.pending = {}
    /\ \E kind \in {"all", "camera", "user"}, key \in Cameras \cup Users :
         /\ kind = "all" => key = "cam1"
         /\ kind = "camera" => key \in Cameras
         /\ kind = "user" => key \in Users
         /\ bc' = [kind |-> kind, key |-> key,
                   targets |-> BroadcastTargets(kind, key),
                   pending |-> BroadcastTargets(kind, key),
                   delivered |-> {}, failed |-> {},
                   half |-> 0, camera_id |-> NoCam, first |-> {}]
    /\ UNCHANGED <<active_connections, camera_subscriptions, user_subscriptions, sock>>
    /\ UNCHANGED notWs

\* a fanout that gives up on the remaining members when one send raises
SendPersonalMessageAborting ==
    /\ \E w \in bc.pending :
         IF sock[w] = "open"
         THEN /\ bc' = [bc EXCEPT !.pending = @ \ {w}, !.delivered = @ \cup {w}]
              /\ UNCHANGED <<active_connections, camera_subscriptions, user_subscriptions>>
         ELSE /\ bc' = [bc EXCEPT !.pending = {}, !.failed = @ \cup {w}]
              /\ disconnect(w, NoUser)
    /\ UNCHANGED sock
    /\ UNCHANGED notWs

\* a fanout that walks the live membership set instead of a copy of it: once
\* the set has changed, the next pass of the iteration raises and the sends
\* not yet created are lost
SendPersonalMessageLive ==
    /\ \E w \in bc.pending :
         IF BroadcastTargets(bc.kind, bc.key) # bc.targets
         THEN /\ bc' = [bc EXCEPT !.pending = {}]
              /\ UNCHANGED <<active_connections, camera_subscriptions, user_subscriptions>>
         ELSE IF sock[w] = "open"
         THEN /\ bc' = [bc EXCEPT !.pending = @ \ {w}, !.delivered = @ \cup {w}]
              /\ UNCHANGED <<active_connections, camera_subscriptions, user_subscriptions>>
         ELSE /\ bc' = [bc EXCEPT !.pending = @ \ {w}, !.failed = @ \cup {w}]
              /\ disconnect(w, NoUser)
    /\ UNCHANGED sock
    /\ UNCHANGED notWs

\* send_personal_message for one member of the list: send_json either
\* delivers, or raises and the handler calls disconnect(websocket) without a
\* user id (the await of its None result then raises inside gather, which
\* keeps it as a result)
SendPersonalMessage ==
    /\ \E w \in bc.pending :
         IF sock[w] = "open"
         THEN /\ bc' = [bc EXCEPT !.pending = @ \ {w}, !.delivered = @ \cup {w}]
              /\ UNCHANGED <<active_connections, camera_subscriptions, user_subscriptions>>
         ELSE /\ bc' = [bc EXCEPT !.pending = @ \ {w}, !.failed = @ \cup {w}]
              /\ disconnect(w, NoUser)
    /\ UNCHANGED sock
    /\ UNCHANGED notWs

\* broadcast_detection, broadcast_alert (camera_id taken from the event, and
\* possibly absent), broadcast_object_counts, broadcast_detection_stats,
\* broadcast_camera_detections, up to the gather of their broadcast_message:
\* the message goes to every connection
BroadcastDetection ==
    /\ bc.pending = {}
    /\ ~(bc.half = 1 /\ bc.camera_id # NoCam)
    /\ \E camera_id \in Cameras \cup {NoCam} :
         bc' = [kind |-> "all", key |-> "cam1",
                targets |-> BroadcastTargets("all", "cam1"),
                pending |-> BroadcastTargets("all", "cam1"),
                delivered |-> {}, failed |-> {},
                half |-> 1, camera_id |-> camera_id, first |-> {}]
    /\ UNCHANGED <<active_connections, camera_subscriptions, user_subscriptions, sock>>
    /\ UNCHANGED notWs

\* the same call after its broadcast_message has returned: the same message
\* goes to the subscribers of the event's camera
BroadcastDetectionCamera ==
    /\ bc.pending = {}
    /\ bc.half = 1
    /\ bc.camera_id # NoCam
    /\ bc' = [kind |-> "camera", key |-> bc.camera_id,
              targets |-> BroadcastTargets("camera", bc.camera_id),
              pending |-> BroadcastTargets("camera", bc.camera_id),
              delivered |-> {}, failed |-> {},
              half |-> 2, camera_id |-> bc.camera_id,
              first |-> bc.delivered \cup bc.failed]
    /\ UNCHANGED <<active_connections, camera_subscriptions, user_subscriptions, sock>>
    /\ UNCHANGED notWs

NextWs ==
    \/ WsConnect
    \/ WsSubscribe
    \/ WsUnsubscribe
    \/ WsBreak
    \/ WsEndpointDisconnect
    \/ BroadcastStart
    \/ SendPersonalMessage

\* the manager when every broadcast is an event broadcast
NextEvent ==
    \/ WsConnect
    \/ WsSubscribe
    \/ WsUnsubscribe
    \/ WsBreak
    \/ WsEndpointDisconnect
    \/ BroadcastDetection
    \/ BroadcastDetectionCamera
    \/ SendPersonalMessage

(***************************************************************************)
(* MetadataConsumer                                                        *)
(***************************************************************************)
None == "None"
NoIngest == [msg |-> None, store |-> "ok", settle |-> "none"]

\* the messages a producer may put on the topic, and the body of each
Msgs == {"valid", "no_camera_id", "no_job_id", "unknown_camera", "unknown_job",
         "not_json"}

Payload(m) ==
    [json |-> m # "not_json",
     camera_id |-> IF m = "no_camera_id" THEN None
                   ELSE IF m = "unknown_camera" THEN "cam9" ELSE "cam1",
     analytics_job_id |-> IF m = "no_job_id" THEN None
                          ELSE IF m = "unknown_job" THEN "job9" ELSE "job1"]

\* the rows of the cameras and analytics_jobs tables
StoreCameras == {"cam1", "cam2"}
StoreJobs == {"job1"}

InitIngest ==
    /\ client = FALSE
    /\ consumer = FALSE
    /\ mq = [m \in Msgs |-> "unsent"]
    /\ nacks = [m \in Msgs |-> 0]
    /\ alerts = [m \in Msgs |-> 0]
    /\ republished = {}
    /\ lastIngest = NoIngest

\* MetadataConsumer.publish_critical_alert: a producer is created, then
\* json.dumps raises TypeError on the UUID under 'id' (and on the MetaData
\* object alert_event.metadata names); the except logs it, nothing is sent
publish_critical_alert(alert) == [sent |-> FALSE]

\* process_message with a validation that raises instead of returning
process_message_strict(message, store) ==
    IF message.camera_id = None \/ message.analytics_job_id = None
    THEN [persisted |-> FALSE, published |-> FALSE, raises |-> TRUE]
    ELSE IF store = "lookup_error"
    THEN [persisted |-> FALSE, published |-> FALSE, raises |-> FALSE]
    ELSE IF message.camera_id \notin StoreCameras
            \/ message.analytics_job_id \notin StoreJobs
    THEN [persisted |-> FALSE, published |-> FALSE, raises |-> FALSE]
    ELSE IF store = "commit_error"
    THEN [persisted |-> FALSE, published |-> FALSE, raises |-> FALSE]
    ELSE [persisted |-> TRUE, published |-> publish_critical_alert(message).sent,
          raises |-> FALSE]

\* process_message without the "if not camera or not job" test
process_message_unchecked(message, store) ==
    IF message.camera_id = None \/ message.analytics_job_id = None
    THEN [persisted |-> FALSE, published |-> FALSE, raises |-> FALSE]
    ELSE IF store = "lookup_error"
    THEN [persisted |-> FALSE, published |-> FALSE, raises |-> FALSE]
    ELSE IF store = "commit_error"
    THEN [persisted |-> FALSE, published |-> FALSE, raises |-> FALSE]
    ELSE [persisted |-> TRUE, published |-> publish_critical_alert(message).sent,
          raises |-> FALSE]

\* MetadataConsumer.process_message: what it persisted and published, and
\* whether it raises.  store is what the entity store does: "ok",
\* "lookup_error" (session.execute raises) or "commit_error" (session.commit
\* raises).  The whole body is inside try/except Exception, so a store error
\* is logged and the coroutine returns normally
process_message(message, store) ==
    IF message.camera_id = None \/ message.analytics_job_id = None
    THEN [persisted |-> FALSE, published |-> FALSE, raises |-> FALSE]
    ELSE IF store = "lookup_error"
    THEN [persisted |-> FALSE, published |-> FALSE, raises |-> FALSE]
    ELSE IF message.camera_id \notin StoreCameras
            \/ message.analytics_job_id \notin StoreJobs
    THEN [persisted |-> FALSE, published |-> FALSE, raises |-> FALSE]
    ELSE IF store = "commit_error"
    THEN [persisted |-> FALSE, published |-> FALSE, raises |-> FALSE]
    ELSE [persisted |-> TRUE, published |-> publish_critical_alert(message).sent,
          raises |-> FALSE]

\* a producer outside the program publishes a message on aries-metadata-raw
Produce ==
    /\ \E m \in Msgs :
         /\ mq[m] = "unsent"
         /\ mq' = [mq EXCEPT ![m] = "pending"]
    /\ UNCHANGED <<client, consumer, nacks, alerts, republished, lastIngest>>
    /\ UNCHANGED notIngest

\* consume_metadata, no client yet: connect().  Client() raising leaves both
\* fields None; subscribe() raising leaves the client set and the consumer
\* None; either way connect returns False and the loop sleeps 5 s
Connect ==
    /\ ~client
    /\ \E outcome \in {"ok", "client_fail", "subscribe_fail"} :
         /\ client' = (outcome # "client_fail")
         /\ consumer' = (outcome = "ok")
    /\ lastIngest' = NoIngest
    /\ UNCHANGED <<mq, nacks, alerts, republished>>
    /\ UNCHANGED notIngest

\* consume_metadata, client set but no consumer: sleep 1 s and go round again
WaitNoConsumer ==
    /\ client /\ ~consumer
    /\ lastIngest' = NoIngest
    /\ UNCHANGED <<client, consumer, mq, nacks, alerts, republished>>
    /\ UNCHANGED notIngest

\* consume_metadata, receive() raises (timeout, broker gone): the outer
\* except logs it and sleeps 1 s
ReceiveTimeout ==
    /\ client /\ consumer
    /\ lastIngest' = NoIngest
    /\ UNCHANGED <<client, consumer, mq, nacks, alerts, republished>>
    /\ UNCHANGED notIngest

\* consume_metadata, receive() returns message m: json.loads, then
\* process_message, then acknowledge; JSONDecodeError and any other exception
\* lead to negative_acknowledge, after which the broker delivers m again
ConsumeMessage ==
    /\ client /\ consumer
    /\ \E m \in Msgs, store \in {"ok", "lookup_error", "commit_error"} :
         LET body == Payload(m)
             out == process_message(body, store)
             settle == IF ~body.json \/ out.raises THEN "nack" ELSE "ack"
         IN /\ mq[m] = "pending"
            /\ nacks[m] < MaxRedeliver
            /\ alerts' = [alerts EXCEPT ![m] =
                              IF body.json /\ out.persisted THEN @ + 1 ELSE @]
            /\ republished' = IF body.json /\ out.published
                              THEN republished \cup {m} ELSE republished
            /\ mq' = [mq EXCEPT ![m] = IF settle = "ack" THEN "acked" ELSE @]
            /\ nacks' = [nacks EXCEPT ![m] = IF settle = "nack" THEN @ + 1 ELSE @]
            /\ lastIngest' = [msg |-> m, store |-> store, settle |-> settle]
    /\ UNCHANGED <<client, consumer>>
    /\ UNCHANGED notIngest

\* the calls consume_metadata makes on the consumer for one received
\* message, acknowledge counted when it returns: acknowledge sits inside the
\* try whose handlers call negative_acknowledge, so an acknowledge that
\* raises is followed by a negative_acknowledge (which only marks the message
\* for redelivery inside the client)
settle_calls_unhandled(parsed, process_raises, ack_raises) ==
    IF ~parsed \/ process_raises
    THEN [acknowledge |-> 0, negative_acknowledge |-> 1]
    ELSE IF ack_raises
    THEN [acknowledge |-> 0, negative_acknowledge |-> 0]
    ELSE [acknowledge |-> 1, negative_acknowledge |-> 0]

settle_calls(parsed, process_raises, ack_raises) ==
    IF ~parsed \/ process_raises
    THEN [acknowledge |-> 0, negative_acknowledge |-> 1]
    ELSE IF ack_raises
    THEN [acknowledge |-> 0, negative_acknowledge |-> 1]
    ELSE [acknowledge |-> 1, negative_acknowledge |-> 0]

\* how a message stands with the broker after these calls
Settlement(calls) ==
    IF calls.acknowledge > 0 /\ calls.negative_acknowledge > 0 THEN "both"
    ELSE IF calls.acknowledge > 0 THEN "ack"
    ELSE IF calls.negative_acknowledge > 0 THEN "nack"
    ELSE "neither"

\* the acknowledgements the broker has refused so far: a parseable message
\* is negative-acknowledged for no other reason
RECURSIVE RefusedIn(_)
RefusedIn(S) ==
    IF S = {} THEN 0
    ELSE LET m == CHOOSE x \in S : TRUE
         IN nacks[m] + RefusedIn(S \ {m})
RefusedAcks == RefusedIn({m \in Msgs : Payload(m).json})

\* consume_metadata, receive() returns message m, the message is parsed and
\* processed, and acknowledge raises (the consumer was closed, the broker is
\* gone): what process_message did stays done
ConsumeAckRaises ==
    /\ client /\ consumer
    /\ \E m \in Msgs, store \in {"ok", "lookup_error", "commit_error"} :
         LET body == Payload(m)
             out == process_message(body, store)
             calls == settle_calls(body.json, out.raises, TRUE)
         IN /\ mq[m] = "pending"
            /\ nacks[m] < MaxRedeliver
            /\ RefusedAcks < MaxAckFailures
            /\ body.json /\ ~out.raises
            /\ alerts' = [alerts EXCEPT ![m] = IF out.persisted THEN @ + 1 ELSE @]
            /\ republished' = IF out.published
                              THEN republished \cup {m} ELSE republished
            /\ mq' = [mq EXCEPT ![m] = IF calls.acknowledge > 0 THEN "acked" ELSE @]
            /\ nacks' = [nacks EXCEPT ![m] = @ + calls.negative_acknowledge]
            /\ lastIngest' = [msg |-> m, store |-> store, settle |-> Settlement(calls)]
    /\ UNCHANGED <<client, consumer>>
    /\ UNCHANGED notIngest

NextIngest ==
    \/ Produce
    \/ Connect
    \/ WaitNoConsumer
    \/ ReceiveTimeout
    \/ ConsumeMessage

\* the consume loop with a broker that may refuse an acknowledgement
NextSettle ==
    \/ Produce
    \/ Connect
    \/ WaitNoConsumer
    \/ ReceiveTimeout
    \/ ConsumeMessage
    \/ ConsumeAckRaises

(***************************************************************************)
(* ConfigService: the ROI test                                             *)
(***************************************************************************)
\* the coordinate values of zone vertices and query points
Coords == {0, 1, 2}
Vertices == {<<vx, vy>> : vx \in Coords, vy \in Coords}

\* an entry of a point list that is not a pair: unpacking it raises
BadEntry == <<1>>

\* the point lists a zone is configured with: every list of vertices, and the
\* lists over three vertices and the bad entry that contain the bad entry
Polygons == UNION {[1..n -> Vertices] : n \in 0..MaxVertices}
MalformedPolygons ==
    {p \in UNION {[1..n -> {<<0, 0>>, <<1, 2>>, <<2, 0>>, BadEntry}] : n \in 1..MaxVertices} :
        \E k \in DOMAIN p : p[k] = BadEntry}

NoName == "None"
NoQuery == [x |-> 0, y |-> 0, roi_name |-> "no call"]

\* the zone of create_default_config, scaled to the coordinate values
DefaultZone ==
    [name |-> "entrance_zone", points |-> <<<<0, 0>>, <<2, 0>>, <<2, 2>>, <<0, 2>>>>,
     alert_on_entry |-> TRUE]

NoAnalytics == [left |-> 0, top |-> 0, width |-> 0, height |-> 0,
                pool |-> FALSE, zone_entry |-> FALSE, called |-> FALSE]

\* ConfigService after load_config has created the default configuration
InitRoi ==
    /\ roi_zones = <<DefaultZone>>
    /\ roi_query = NoQuery
    /\ roi_result = FALSE
    /\ lastAnalytics = NoAnalytics

\* ConfigService with a configuration file that holds no zone or one zone
InitRoiLoaded ==
    /\ roi_zones \in {<<>>} \cup
            {<<[name |-> "entrance_zone", points |-> p, alert_on_entry |-> TRUE]>> :
                 p \in Polygons \cup MalformedPolygons}
    /\ roi_query = NoQuery
    /\ roi_result = FALSE
    /\ lastAnalytics = NoAnalytics

\* the zones of a configuration written by an operator: a name, one of three
\* point lists (the left half, the square, the lower right triangle), and
\* the alert_on_entry flag
ConfiguredZones ==
    [name : {"entrance_zone", "exit_zone"},
     points : {<<<<0, 0>>, <<1, 0>>, <<1, 2>>, <<0, 2>>>>,
               <<<<0, 0>>, <<2, 0>>, <<2, 2>>, <<0, 2>>>>,
               <<<<0, 0>>, <<2, 0>>, <<2, 2>>>>},
     alert_on_entry : BOOLEAN]

\* ConfigService with a configuration file that holds up to MaxZones zones
InitRoiConfigured ==
    /\ roi_zones \in UNION {[1..n -> ConfiguredZones] : n \in 0..MaxZones}
    /\ roi_query = NoQuery
    /\ roi_result = FALSE
    /\ lastAnalytics = NoAnalytics

\* "x <= xinters" for the edge p1-p2 with p1y # p2y, where
\* xinters = (y - p1y) * (p2x - p1x) / (p2y - p1y) + p1x.  The coordinates
\* are small integers, so the float quotient decides the comparison as the
\* exact quotient does; the comparison is made on the cross products.
XLeqIntersection(x, y, p1, p2) ==
    LET num == (y - p1[2]) * (p2[1] - p1[1])
        den == p2[2] - p1[2]
    IN IF den > 0 THEN (x - p1[1]) * den <= num
       ELSE (x - p1[1]) * den >= num

\* the edge test with both ends of the edge's y-range included
EdgeTogglesClosed(x, y, p1, p2) ==
    /\ y >= Min(p1[2], p2[2])
    /\ y <= Max(p1[2], p2[2])
    /\ x <= Max(p1[1], p2[1])
    /\ p1[2] # p2[2]
    /\ (p1[1] = p2[1] \/ XLeqIntersection(x, y, p1, p2))

\* _point_in_polygon, the nested ifs of one pass of the loop: does the edge
\* p1-p2 flip "inside"
EdgeToggles(x, y, p1, p2) ==
    /\ y > Min(p1[2], p2[2])
    /\ y <= Max(p1[2], p2[2])
    /\ x <= Max(p1[1], p2[1])
    /\ (p1[1] = p2[1] \/ XLeqIntersection(x, y, p1, p2))

\* _point_in_polygon, the loop from pass i on; p1 is the previous entry.
\* Unpacking an entry that is not a pair raises.
RECURSIVE PolygonLoop(_, _, _, _, _, _)
PolygonLoop(x, y, polygon, i, p1, inside) ==
    IF i > Len(polygon) THEN [raised |-> FALSE, inside |-> inside]
    ELSE LET p2 == polygon[(i % Len(polygon)) + 1]
         IN IF Len(p2) # 2 THEN [raised |-> TRUE, inside |-> inside]
            ELSE PolygonLoop(x, y, polygon, i + 1, p2,
                             IF EdgeToggles(x, y, p1, p2) THEN ~inside ELSE inside)

\* _point_in_polygon that returns the value of "inside" when it catches an
\* exception
point_in_polygon_partial(x, y, polygon) ==
    IF polygon = <<>> THEN FALSE
    ELSE IF Len(polygon[1]) # 2 THEN FALSE
    ELSE PolygonLoop(x, y, polygon, 0, polygon[1], FALSE).inside

\* ConfigService._point_in_polygon: polygon[0] of an empty list raises, as
\* does unpacking a bad entry; the except branch returns False
point_in_polygon(x, y, polygon) ==
    IF polygon = <<>> THEN FALSE
    ELSE IF Len(polygon[1]) # 2 THEN FALSE
    ELSE LET r == PolygonLoop(x, y, polygon, 0, polygon[1], FALSE)
         IN IF r.raised THEN FALSE ELSE r.inside

\* ConfigService.is_point_in_roi, the loop over the zones from zone k on
RECURSIVE ZoneLoop(_, _, _, _, _)
ZoneLoop(x, y, roi_name, zones, k) ==
    IF k > Len(zones) THEN FALSE
    ELSE IF roi_name # NoName /\ zones[k].name # roi_name
         THEN ZoneLoop(x, y, roi_name, zones, k + 1)
         ELSE IF point_in_polygon(x, y, zones[k].points) THEN TRUE
              ELSE ZoneLoop(x, y, roi_name, zones, k + 1)

\* ConfigService.is_point_in_roi
is_point_in_roi(x, y, roi_name) ==
    IF roi_zones = <<>> THEN FALSE
    ELSE ZoneLoop(x, y, roi_name, roi_zones, 1)

\* one call of is_point_in_roi
IsPointInRoi ==
    /\ roi_query = NoQuery
    /\ \E x \in Coords, y \in Coords, roi_name \in {NoName, "exit_zone"} :
         /\ roi_query' = [x |-> x, y |-> y, roi_name |-> roi_name]
         /\ roi_result' = is_point_in_roi(x, y, roi_name)
    /\ UNCHANGED <<roi_zones, lastAnalytics>>
    /\ UNCHANGED notRoi

NextRoi == IsPointInRoi

\* DeepStreamPipeline._run_analytics for one object: the centre of its box
\* is tested against the zones; on a match a user meta is acquired from the
\* pool (which may have none left) and the zone_entry payload is attached
run_analytics(left, top, width, height, pool) ==
    is_point_in_roi(left + width \div 2, top + height \div 2, NoName) /\ pool

RunAnalytics ==
    /\ lastAnalytics = NoAnalytics
    /\ \E left \in {0, 1}, top \in {0, 1}, width \in {0, 2}, height \in {0, 2},
          pool \in BOOLEAN :
         lastAnalytics' = [left |-> left, top |-> top, width |-> width,
                           height |-> height, pool |-> pool,
                           zone_entry |-> run_analytics(left, top, width, height, pool),
                           called |-> TRUE]
    /\ UNCHANGED <<roi_zones, roi_query, roi_result>>
    /\ UNCHANGED notRoi

NextAnalytics == RunAnalytics

(***************************************************************************)
(* DetectionSimulator                                                      *)
(***************************************************************************)
\* two of the six object_classes
Classes == {"person", "car"}

\* an object id "<class>_<first 8 hex digits of a uuid4>" is a pair of the
\* class and a number
NoDet == [camera |-> NoCam, class |-> "none", object_id |-> <<"none", 0>>, roll |-> FALSE]

\* the time between two detections: within the reuse window, the reuse
\* window, a day
Delays == {5, reuse_window, seconds_per_day}

\* no pass in progress: the loop is at "while self.is_running"
NoCycle == [pc |-> "idle", cameras |-> <<>>, jobs |-> {}, todo |-> <<>>,
            handled |-> {}, failed |-> {}]

InitSim ==
    /\ active_detections = [id \in {} |-> 0]
    /\ object_counters = [c \in {} |-> 0]
    /\ sim_now = 0
    /\ sim_sleeps = 0
    /\ lastDet = NoDet
    /\ cycle = NoCycle

\* timedelta.seconds of a difference of d seconds: a timedelta is normalised
\* to days, 0 <= seconds < 86400 and microseconds, and .seconds leaves the
\* days out
timedelta_seconds(d) == d % seconds_per_day

\* the object id minted for a class: a uuid4 fragment, taken to be one that
\* no id of the table carries
NewObjectId(class) ==
    <<class, CHOOSE n \in 1..(MaxTracks + 1) :
                 /\ <<class, n>> \notin DOMAIN active_detections
                 /\ \A m \in 1..(n - 1) : <<class, m>> \in DOMAIN active_detections>>

\* generate_object_id with the class left out of the filter
generate_object_id_any_class(camera_id, object_class, roll) ==
    LET existing_objects ==
            {obj_id \in DOMAIN active_detections :
                /\ active_detections[obj_id].camera_id = camera_id
                /\ timedelta_seconds(sim_now - active_detections[obj_id].last_seen)
                       < reuse_window}
    IN IF roll /\ existing_objects # {} THEN existing_objects
       ELSE {NewObjectId(object_class)}

\* DetectionSimulator.generate_object_id: the ids it can return; roll says
\* whether random.random() < 0.3, random.choice takes any of existing_objects
generate_object_id(camera_id, object_class, roll) ==
    LET existing_objects ==
            {obj_id \in DOMAIN active_detections :
                /\ active_detections[obj_id].camera_id = camera_id
                /\ active_detections[obj_id].class = object_class
                /\ timedelta_seconds(sim_now - active_detections[obj_id].last_seen)
                       < reuse_window}
    IN IF roll /\ existing_objects # {} THEN existing_objects
       ELSE {NewObjectId(object_class)}

\* the object counter of a camera and a class, 0 when there is none
CounterOf(counters, c, k) ==
    IF c \in DOMAIN counters THEN (IF k \in DOMAIN counters[c] THEN counters[c][k] ELSE 0)
    ELSE 0

\* simulate_detection line 127: the track just stored has no "first_seen", so
\* the test is on utcnow() - utcnow(), the right operand read after the left
\* one; ticked says whether the clock moved on between the two reads, which
\* makes the difference negative
counts_as_new(ticked) ==
    timedelta_seconds(IF ticked THEN 0 - 1 ELSE 0) < 1

\* DetectionSimulator.simulate_detection for camera c: class, id, track
\* table, counter
simulate_detection(c) ==
    \E k \in Classes, roll \in BOOLEAN, ticked \in BOOLEAN :
         /\ \E object_id \in generate_object_id(c, k, roll) :
              /\ \/ object_id \in DOMAIN active_detections
                 \/ Cardinality(DOMAIN active_detections) < MaxTracks
              /\ active_detections' =
                     DictSet(active_detections, object_id,
                             [camera_id |-> c, class |-> k, last_seen |-> sim_now])
              /\ lastDet' = [camera |-> c, class |-> k, object_id |-> object_id,
                             roll |-> roll]
         /\ LET row == IF c \in DOMAIN object_counters THEN object_counters[c]
                       ELSE [x \in {} |-> 0]
                row0 == IF k \in DOMAIN row THEN row ELSE DictSet(row, k, 0)
            IN IF counts_as_new(ticked)
               THEN /\ row0[k] < MaxCount
                    /\ object_counters' =
                           DictSet(object_counters, c, DictSet(row0, k, row0[k] + 1))
               ELSE object_counters' = DictSet(object_counters, c, row0)

\* one detection of some camera
SimulateDetection ==
    /\ \E c \in Cameras : simulate_detection(c)
    /\ UNCHANGED <<sim_now, sim_sleeps, cycle>>
    /\ UNCHANGED notSim

\* time passes until the next detection: the sleeps of run_simulation, or a
\* camera that is offline or without an analytics job for a while
Sleep ==
    /\ sim_sleeps < MaxSleeps
    /\ \E d \in Delays : sim_now' = sim_now + d
    /\ sim_sleeps' = sim_sleeps + 1
    /\ lastDet' = NoDet
    /\ UNCHANGED <<active_detections, object_counters, cycle>>
    /\ UNCHANGED notSim

NextSim ==
    \/ SimulateDetection
    \/ Sleep

\* the lists get_active_cameras can return: the online cameras in some order
CameraLists ==
    {l \in UNION {[1..n -> Cameras] : n \in 0..2} :
        \A i \in DOMAIN l, j \in DOMAIN l : l[i] = l[j] => i = j}

\* run_simulation, the start of a pass of the while loop: the session is
\* opened and the active cameras are read; jobs are the cameras for which
\* get_analytics_job_for_camera will find an active job
CycleBegin ==
    /\ cycle.pc = "idle"
    /\ sim_sleeps < MaxSleeps
    /\ \E cameras \in CameraLists, jobs \in SUBSET Cameras :
         cycle' = [pc |-> "loop", cameras |-> cameras, jobs |-> jobs,
                   todo |-> cameras, handled |-> {}, failed |-> {}]
    /\ UNCHANGED <<active_detections, object_counters, sim_now, sim_sleeps, lastDet>>
    /\ UNCHANGED notSim

\* run_simulation, one pass of "for camera in cameras": a camera without a
\* job is skipped; otherwise randint(0, int(detection_rate * 2)) is 0 or 1
\* and each detection is simulated, saved and broadcast.  The commit of
\* save_detection_to_db can raise; nothing inside the for loop catches it,
\* so it ends the for loop and reaches the except clause of the while loop.
\* The periodic broadcasts of counts and statistics change no state.
CycleCamera ==
    /\ cycle.pc = "loop"
    /\ cycle.todo # <<>>
    /\ LET camera == Head(cycle.todo)
       IN IF camera \notin cycle.jobs
          THEN /\ cycle' = [cycle EXCEPT !.todo = Tail(@)]
               /\ UNCHANGED <<active_detections, object_counters, lastDet>>
          ELSE \E detections_this_cycle \in {0, 1}, saved \in BOOLEAN :
                 IF detections_this_cycle = 0
                 THEN /\ saved
                      /\ cycle' = [cycle EXCEPT !.todo = Tail(@),
                                                !.handled = @ \cup {camera}]
                      /\ UNCHANGED <<active_detections, object_counters, lastDet>>
                 ELSE /\ simulate_detection(camera)
                      /\ cycle' = IF saved
                                  THEN [cycle EXCEPT !.todo = Tail(@),
                                                     !.handled = @ \cup {camera}]
                                  ELSE [cycle EXCEPT !.pc = "error",
                                                     !.todo = Tail(@),
                                                     !.failed = @ \cup {camera}]
    /\ UNCHANGED <<sim_now, sim_sleeps>>
    /\ UNCHANGED notSim

\* run_simulation, the end of a pass: asyncio.sleep(1) after the for loop,
\* asyncio.sleep(5) in the except clause
CycleSleep ==
    /\ \/ cycle.pc = "loop" /\ cycle.todo = <<>>
       \/ cycle.pc = "error"
    /\ sim_now' = sim_now + (IF cycle.pc = "error" THEN 5 ELSE 1)
    /\ sim_sleeps' = sim_sleeps + 1
    /\ lastDet' = NoDet
    /\ cycle' = NoCycle
    /\ UNCHANGED <<active_detections, object_counters>>
    /\ UNCHANGED notSim

NextCycle == CycleBegin \/ CycleCamera \/ CycleSleep

(***************************************************************************)
(* Claims about the StreamManager                                          *)
(***************************************************************************)
\* the processors of camera c that hold an open source
OpenSessions(c) == {i \in Pids : procs[i].camera = c /\ procs[i].cap}

\* C1: start_stream on a camera that already has a session returns True
\* (already active) and changes neither the registry, the processors (so no
\* counter), the playlists, the files nor the tasks; and after every step at
\* most one processor per camera id holds an open source.
C1_StartIdempotent ==
    [][ /\ \A c \in Cameras :
            (c \in DOMAIN streams /\ lastOp'.op = "start" /\ lastOp'.cam = c)
                => /\ lastOp'.result = TRUE
                   /\ UNCHANGED <<streams, procs, hls_playlists, hls_files, tasks, appended>>
        /\ \A c \in Cameras : Cardinality(OpenSessions(c))' <= 1
      ]_vars

\* a start_stream call has just returned "already active" for a session that
\* had read frames in its background task before the call
C1_Witness ==
    \E c \in Cameras :
        /\ lastOp = [op |-> "start", cam |-> c, result |-> TRUE]
        /\ c \in DOMAIN streams
        /\ procs[streams[c]].frame_count >= 2
        /\ tasks[streams[c]].pc = "sleeping"

AtThreshold(c) ==
    c \in DOMAIN streams /\ procs[streams[c]].error_count >= reconnect_attempts

\* C2: once the consecutive read failures of a session reach
\* reconnect_attempts the camera is no longer listed as active, and the
\* session is eventually removed, so that get_stream_info reports not found.
C2_ThresholdTeardown ==
    \A c \in Cameras :
        /\ [](AtThreshold(c) => c \notin get_active_streams)
        /\ AtThreshold(c) ~> (get_stream_info(c) = [found |-> FALSE]
                              /\ c \notin get_active_streams)

\* the third consecutive read failure has just released the source of a
\* registered session that had been reading
C2_Witness ==
    \E c \in Cameras :
        /\ c \in DOMAIN streams
        /\ procs[streams[c]].error_count = reconnect_attempts
        /\ ~procs[streams[c]].is_connected
        /\ ~procs[streams[c]].cap
        /\ procs[streams[c]].frame_count >= 2

\* the session a task was created for has left the registry while the task
\* is still alive
TaskSessionGone(t) ==
    tasks[t].pc \in {"created", "sleeping"} /\ ~Registered(streams, t)

\* C3: when a session leaves the registry, on that step its source handle is
\* closed, its frame and metadata buffers are empty and the camera's playlist
\* is removed; and a background task whose session has left does no further
\* work on the registry, the registered processors or the playlists.
C3_ReleaseOnEveryExit ==
    [][ /\ \A c \in DOMAIN streams :
            (c \notin DOMAIN streams' \/ streams'[c] # streams[c])
                => /\ ~procs'[streams[c]].cap
                   /\ procs'[streams[c]].fb = 0
                   /\ procs'[streams[c]].mb = 0
                   /\ (c \notin DOMAIN streams' => c \notin DOMAIN hls_playlists')
        /\ \A t \in Pids :
            (TaskSessionGone(t) /\ TaskStep(t))
                => /\ UNCHANGED <<streams, hls_playlists>>
                   /\ \A i \in Pids : Registered(streams, i) => procs'[i] = procs[i]
      ]_vars

\* C40: when start_stream(c) has just returned True, c is registered with a
\* connected session; and every registered session is connected, so that
\* get_active_streams is the key set of the registry.
C40_StartedMeansConnected ==
    /\ (lastOp.op = "start" /\ lastOp.result) => lastOp.cam \in get_active_streams
    /\ get_active_streams = DOMAIN streams

\* C36: when a background task exits while the registry holds, for its
\* camera, a session other than the one the task was working on, the exit
\* leaves that session registered, with its processor and playlist as they
\* were.
C36_ExitSparesNewerSession ==
    [][ \A t \in Pids :
          LET c == tasks[t].cam
          IN (/\ TaskExit(t) \/ TaskException(t)
              /\ c \in DOMAIN streams
              /\ streams[c] # TaskProc(t))
                 => /\ c \in DOMAIN streams'
                    /\ streams'[c] = streams[c]
                    /\ procs'[streams[c]] = procs[streams[c]]
                    /\ c \in DOMAIN hls_playlists' ]_vars

\* what belongs to camera c in the StreamManager: the session as
\* get_stream_info reports it, the two buffers, and the playlist window
CameraState(c) ==
    [info |-> get_stream_info(c),
     buffers |-> IF c \in DOMAIN streams
                 THEN <<procs[streams[c]].fb, procs[streams[c]].mb>> ELSE <<0, 0>>,
     window |-> IF c \in DOMAIN hls_playlists THEN <<hls_playlists[c]>> ELSE <<>>]

\* what belongs to camera c in the MockStreamProcessor
MockCameraState(c) ==
    [active |-> IF c \in DOMAIN active_streams THEN <<active_streams[c]>> ELSE <<>>,
     has_task |-> c \in stream_tasks,
     task |-> mock_tasks[c],
     dir |-> mock_dir[c]]

\* C34: what belongs to a camera changes only in a step of that camera: a
\* start or stop call for it, or a step of a background task started for it.
C34_PartitionedPerCamera ==
    /\ [][ \A b \in Cameras :
             CameraState(b)' # CameraState(b)
                 => \/ lastOp'.op # "none" /\ lastOp'.cam = b
                    \/ \E t \in Pids : tasks[t].cam = b /\ TaskStep(t) ]_vars
    /\ [][ \A b \in Cameras :
             MockCameraState(b)' # MockCameraState(b)
                 => \/ mockOp'.op # "none" /\ mockOp'.cam = b
                    \/ MockTaskRun(b) \/ MockTaskCancelled(b) ]_vars

(***************************************************************************)
(* Claims about the segment publishers                                     *)
(***************************************************************************)
\* the segment numbers a media playlist lists, in order
SegmentVals(pl) ==
    LET segs == SelectSeq(pl, LAMBDA e : e.tag = "segment")
    IN [k \in DOMAIN segs |-> segs[k].val]

\* the value of a playlist's #EXT-X-MEDIA-SEQUENCE line
MediaSequence(pl) ==
    LET hdr == SelectSeq(pl, LAMBDA e : e.tag = "#EXT-X-MEDIA-SEQUENCE")
    IN hdr[1].val

\* the last min(n, k) of the n consecutive numbers that start at first
LastOf(n, k, first) ==
    [i \in 1..Min(n, k) |-> first + n - Min(n, k) + i - 1]

\* C4: a playlist lists exactly the most recent K segments in order.  After
\* the mock generator has completed n segments (numbered from 0) its media
\* playlist lists the last min(n, 5) of them and its media sequence is the
\* first one listed; after n segments (numbered from 1) were appended to a
\* StreamManager playlist it holds the last min(n, max_segments_per_playlist).
C4_WindowHoldsLastK ==
    /\ \A c \in Cameras :
        LET n == mock_tasks[c].segment_index
            pl == mock_dir[c].playlist
        IN /\ SegmentVals(pl) = LastOf(n, 5, 0)
           /\ n > 0 => MediaSequence(pl) = SegmentVals(pl)[1]
    /\ \A c \in Cameras :
        LET pl == IF c \in DOMAIN hls_playlists THEN hls_playlists[c] ELSE <<>>
        IN [i \in DOMAIN pl |-> pl[i].segment_id]
               = LastOf(appended[c], max_segments_per_playlist, 1)

\* the sixth mock segment has evicted segment 0, and the eleventh appended
\* segment has evicted the first one of a StreamManager playlist
C4_Witness ==
    /\ mock_tasks["cam1"].segment_index = 6
    /\ SegmentVals(mock_dir["cam1"].playlist) = <<1, 2, 3, 4, 5>>
    /\ appended["cam1"] = 11
    /\ Len(hls_playlists["cam1"]) = 10
    /\ hls_playlists["cam1"][1].segment_id = 2

(***************************************************************************)
(* Claims about the ConnectionManager                                      *)
(***************************************************************************)
\* the scopes connection w is a member of
Memberships(w) ==
    [global |-> w \in active_connections,
     cams |-> {c \in Cameras : w \in CamSet(camera_subscriptions, c)},
     users |-> {u \in DOMAIN user_subscriptions : w \in user_subscriptions[u]}]

InNoScope(w) == Memberships(w) = [global |-> FALSE, cams |-> {}, users |-> {}]

\* C5: a camera-scope broadcast targets exactly the connections in that
\* camera's subscription set when the call is made; only targets receive it,
\* and a target misses it only if the send to its own socket raised.
C5_CameraScopeExact ==
    /\ [][ (BroadcastStart /\ bc'.kind = "camera")
               => bc'.targets = CamSet(camera_subscriptions, bc'.key) ]_vars
    /\ [](bc.kind = "camera" =>
            /\ bc.delivered \subseteq bc.targets
            /\ bc.targets \ bc.delivered \subseteq bc.pending \cup bc.failed)
    /\ [][ \A w \in Conns : w \in bc'.failed \ bc.failed => sock[w] # "open" ]_vars

\* a broadcast to camera cam1 has completed: connection 1, subscribed to
\* cam1, received it; connection 2, open and subscribed only to cam2, did not
C5_Witness ==
    /\ bc.kind = "camera" /\ bc.key = "cam1" /\ bc.pending = {}
    /\ bc.delivered = {1}
    /\ sock[2] = "open"
    /\ Memberships(2).cams = {"cam2"}

\* C6: when the endpoint calls disconnect(websocket, username) the
\* connection is afterwards in no scope: not in the global set, in no
\* camera's set and in no user's set.
C6_DropRemovesAll ==
    [][ \A w \in Conns :
            (sock[w] = "broken" /\ sock'[w] = "closed") => InNoScope(w)' ]_vars

\* C7: a failing send leaves every other pending member pending and every
\* delivery made, changes no other connection's memberships, and when the
\* broadcast completes every target was delivered to unless the send to its
\* own socket raised.
C7_FanoutIsolated ==
    /\ [][ \A w \in Conns :
             (SendPersonalMessage /\ w \in bc'.failed \ bc.failed)
                 => /\ bc'.pending = bc.pending \ {w}
                    /\ bc'.delivered = bc.delivered
                    /\ sock[w] # "open"
                    /\ \A v \in Conns \ {w} : Memberships(v)' = Memberships(v) ]_vars
    /\ [](bc.pending = {} =>
            /\ bc.delivered \cup bc.failed = bc.targets
            /\ \A v \in bc.targets : sock[v] = "open" => v \in bc.delivered)

\* a broadcast has completed in which one send raised and another member
\* received the message
C7_Witness ==
    /\ bc.pending = {}
    /\ bc.failed # {}
    /\ bc.delivered # {}
    /\ \E v \in bc.delivered : InNoScope(v) = FALSE

\* C8: a connection whose delivery failed is a member of no scope, so no
\* later broadcast targets it.
C8_FailedIsDropped ==
    \A w \in bc.failed : InNoScope(w)

\* C35: while a broadcast is in progress, a connect, subscribe, unsubscribe,
\* peer loss or disconnect leaves its list of sends as it is; a send, failed
\* or not, settles only its own entry of the list; and a broadcast that has
\* no send left has attempted every connection it listed at the call, so
\* none that was subscribed throughout is skipped.
C35_BroadcastSurvivesChanges ==
    /\ [][ (bc.pending # {} /\ bc'.pending # {} /\ bc'.pending = bc.pending)
               => bc' = bc ]_vars
    /\ [][ bc'.pending # bc.pending /\ bc.pending # {}
               => \E w \in bc.pending :
                     /\ bc'.pending = bc.pending \ {w}
                     /\ bc'.targets = bc.targets
                     /\ bc'.delivered \cup bc'.failed = bc.delivered \cup bc.failed \cup {w} ]_vars
    /\ [](bc.pending = {} => bc.targets \subseteq bc.delivered \cup bc.failed)

\* a broadcast to the subscribers of a camera is in progress: it listed both
\* connections, the first has received the message and has unsubscribed
\* since, the send to the second is still to come
C35_Witness ==
    /\ bc.kind = "camera"
    /\ bc.targets = {1, 2}
    /\ bc.delivered = {1}
    /\ bc.pending = {2}
    /\ CamSet(camera_subscriptions, bc.key) = {2}

\* C32: a subscribe, an unsubscribe or a drop applied again to the state it
\* produced changes nothing and does not raise; an unsubscribe from one
\* camera leaves the connection's other camera scopes, its user scope and
\* its global membership as they were.
C32_IdempotentSetOps ==
    /\ [][ \A w \in Conns, c \in Cameras :
             (/\ WsSubscribe
              /\ sock[w] = "open"
              /\ camera_subscriptions' = subscribe_to_camera(camera_subscriptions, w, c))
                 => subscribe_to_camera(camera_subscriptions', w, c)
                        = camera_subscriptions' ]_vars
    /\ [][ \A w \in Conns, c \in Cameras :
             (/\ WsUnsubscribe
              /\ sock[w] = "open"
              /\ camera_subscriptions' = unsubscribe_from_camera(camera_subscriptions, w, c))
                 => /\ unsubscribe_from_camera(camera_subscriptions', w, c)
                           = camera_subscriptions'
                    /\ Memberships(w)' =
                           [Memberships(w) EXCEPT !.cams = @ \ {c}] ]_vars
    /\ [][ \A w \in Conns :
             (sock[w] = "broken" /\ sock'[w] = "closed")
                 => /\ ~DisconnectRaises(camera_subscriptions', w)
                    /\ DiscardFromCameras(camera_subscriptions', w) = camera_subscriptions'
                    /\ DiscardFromUser(user_subscriptions', w, UserOf(w))
                           = user_subscriptions'
                    /\ active_connections' \ {w} = active_connections' ]_vars

\* C37: every connection found in camera_subscriptions or in
\* user_subscriptions is also in active_connections, and no key of either
\* index maps to an empty set.
C37_NoDanglingSubscribers ==
    /\ \A i \in DOMAIN camera_subscriptions :
          /\ camera_subscriptions[i].subs # {}
          /\ camera_subscriptions[i].subs \subseteq active_connections
    /\ \A u \in DOMAIN user_subscriptions :
          /\ user_subscriptions[u] # {}
          /\ user_subscriptions[u] \subseteq active_connections

\* C39: a message returned by receive is settled exactly once before the
\* next receive: it is acknowledged (and gone from the subscription) or
\* negative-acknowledged (and due for redelivery), never both, never
\* neither, also when acknowledge itself raises.
C39_SettledExactlyOnce ==
    \A m \in Msgs :
        lastIngest.msg = m
            => \/ /\ lastIngest.settle = "ack"
                  /\ mq[m] = "acked"
               \/ /\ lastIngest.settle = "nack"
                  /\ mq[m] = "pending"
                  /\ nacks[m] > 0

\* a processed message whose acknowledge raised
C39_Witness ==
    /\ lastIngest = [msg |-> "valid", store |-> "ok", settle |-> "nack"]
    /\ alerts["valid"] > 0
    /\ nacks["valid"] = 1

(***************************************************************************)
(* Claims about the event broadcasts                                       *)
(***************************************************************************)
\* the connections the event broadcast in flight has attempted in its second
\* broadcast
SecondAttempts == IF bc.half = 2 THEN bc.delivered \cup bc.failed ELSE {}

\* C38: one event broadcast (broadcast_detection, broadcast_alert,
\* broadcast_object_counts) attempts delivery to each connection at most
\* once: no connection attempted by its broadcast to all connections is
\* attempted again by its broadcast to the camera's subscribers.
C38_AttemptedAtMostOnce == bc.first \cap SecondAttempts = {}

(***************************************************************************)
(* Claims about the MetadataConsumer                                       *)
(***************************************************************************)
\* the messages that parse but lack camera_id or analytics_job_id
InvalidMsgs ==
    {m \in Msgs : /\ Payload(m).json
                  /\ (Payload(m).camera_id = None \/ Payload(m).analytics_job_id = None)}

StoreErrorHit(body, store) ==
    /\ body.json
    /\ body.camera_id # None /\ body.analytics_job_id # None
    /\ \/ store = "lookup_error"
       \/ /\ store = "commit_error"
          /\ body.camera_id \in StoreCameras
          /\ body.analytics_job_id \in StoreJobs

\* C10: a message whose processing hit a store error is negative-
\* acknowledged, and is not acknowledged with no AlertEvent committed for it.
C10_TransientErrorNacked ==
    \A m \in Msgs :
        (lastIngest.msg = m /\ StoreErrorHit(Payload(m), lastIngest.store))
            => /\ lastIngest.settle = "nack"
               /\ (mq[m] = "acked" => alerts[m] > 0)

(***************************************************************************)
(* Claims about the playlist text                                          *)
(***************************************************************************)
\* the media sequence number a client reads from a playlist text: the value
\* of its #EXT-X-MEDIA-SEQUENCE line, 0 when the text has none
PlaylistMediaSequence(text) ==
    LET hdr == SelectSeq(text, LAMBDA e : e.tag = "#EXT-X-MEDIA-SEQUENCE")
    IN IF hdr = <<>> THEN 0 ELSE hdr[1].val

\* has the text an end marker
HasEndMarker(text) == \E k \in DOMAIN text : text[k].tag = "#EXT-X-ENDLIST"

\* C21: the media sequence number of a playlist is the number of segments
\* evicted from the window so far, which is the sequence number (from 0) of
\* the oldest segment retained: in the mock's media playlist, and in the text
\* get_hls_playlist returns.
C21_MediaSequenceIsOldest ==
    /\ \A c \in Cameras :
        mock_dir[c].playlist # <<>>
            => PlaylistMediaSequence(mock_dir[c].playlist)
                   = Max(0, mock_tasks[c].segment_index - 5)
    /\ \A c \in DOMAIN hls_playlists :
        get_hls_playlist(c) # NoText
            => PlaylistMediaSequence(get_hls_playlist(c))
                   = appended[c] - Len(hls_playlists[c])

\* C22: the playlist text of a camera whose session is connected has no end
\* marker, and neither has a mock media playlist.
C22_NoEndMarkerWhileStreaming ==
    /\ \A c \in get_active_streams : ~HasEndMarker(get_hls_playlist(c))
    /\ \A c \in Cameras : ~HasEndMarker(mock_dir[c].playlist)

\* the segment numbers a mock media playlist lists
Listed(pl) == {SegmentVals(pl)[k] : k \in DOMAIN SegmentVals(pl)}

WindowOf(pls, c) == IF c \in DOMAIN pls THEN pls[c] ELSE <<>>

\* C24: a step that puts a segment into a camera's window is taken while the
\* camera is registered with a connected processor that holds its source, and
\* leaves it so; a camera that is not registered has no window; and a mock
\* camera's directory is written only while its flag in active_streams is set.
C24_PublishOnlyWhileConnected ==
    [][ /\ \A c \in Cameras :
            (WindowOf(hls_playlists', c) # WindowOf(hls_playlists, c)
             /\ WindowOf(hls_playlists', c) # <<>>)
                => /\ c \in DOMAIN streams /\ c \in DOMAIN streams'
                   /\ streams'[c] = streams[c]
                   /\ procs[streams[c]].is_connected /\ procs[streams[c]].cap
                   /\ procs'[streams[c]].is_connected
        /\ \A c \in DOMAIN hls_playlists' : c \in DOMAIN streams'
        /\ \A c \in Cameras :
            mock_dir'[c] # mock_dir[c]
                => c \in DOMAIN active_streams /\ active_streams[c]
      ]_vars

\* stop_stream has just returned for a camera that had published a segment,
\* while the task of the stopped session has not yet run again
C24_Witness ==
    \E c \in Cameras :
        /\ lastOp = [op |-> "stop", cam |-> c, result |-> TRUE]
        /\ c \notin DOMAIN hls_playlists
        /\ hls_files # {}
        /\ \E t \in Pids : tasks[t].cam = c /\ tasks[t].pc = "sleeping"

(***************************************************************************)
(* Claims about the ROI test                                               *)
(***************************************************************************)
\* the point (x, y) lies on the segment a-b
OnSegment(x, y, a, b) ==
    /\ (b[1] - a[1]) * (y - a[2]) = (b[2] - a[2]) * (x - a[1])
    /\ Min(a[1], b[1]) <= x /\ x <= Max(a[1], b[1])
    /\ Min(a[2], b[2]) <= y /\ y <= Max(a[2], b[2])

\* the k-th edge of a closed polygon
EdgeEnd(polygon, k) == polygon[(k % Len(polygon)) + 1]

OnBoundary(x, y, polygon) ==
    \E k \in DOMAIN polygon : OnSegment(x, y, polygon[k], EdgeEnd(polygon, k))

\* the edges the ray from (x, y) to +infinity crosses, for a point off the
\* boundary: the ray is taken just above height y, where it meets no vertex
RayCrossings(x, y, polygon) ==
    {k \in DOMAIN polygon :
        LET a == polygon[k]
            b == EdgeEnd(polygon, k)
            num == (y - a[2]) * (b[1] - a[1])
            den == b[2] - a[2]
        IN /\ Min(a[2], b[2]) <= y /\ y < Max(a[2], b[2])
           /\ IF den > 0 THEN (x - a[1]) * den < num ELSE (x - a[1]) * den > num}

\* the same closed polygon, listed from its second vertex
Rotate(polygon) ==
    IF polygon = <<>> THEN polygon ELSE Append(Tail(polygon), Head(polygon))

Square == <<<<1, 1>>, <<5, 1>>, <<5, 5>>, <<1, 5>>>>

\* C25: for a zone whose point list holds vertices only and a query point off
\* its boundary, the test answers inside exactly when the ray to +infinity
\* crosses an odd number of edges; for every query point, on the boundary or
\* not, the answer does not depend on the vertex the list starts with; (3,3)
\* is inside the square (1,1),(5,1),(5,5),(1,5) and (0,0) is not.
C25_RayCastingParity ==
    /\ (roi_query # NoQuery /\ roi_query.roi_name = NoName /\ roi_zones # <<>>)
        => LET p == roi_zones[1].points
               x == roi_query.x
               y == roi_query.y
           IN p \in Polygons
                => /\ ~OnBoundary(x, y, p)
                        => roi_result = (Cardinality(RayCrossings(x, y, p)) % 2 = 1)
                   /\ roi_result = point_in_polygon(x, y, Rotate(p))
    /\ point_in_polygon(3, 3, Square)
    /\ ~point_in_polygon(0, 0, Square)

\* the centre of a diamond is found inside, though the ray from it leaves
\* through a vertex
C25_Witness ==
    /\ Len(roi_zones) = 1
    /\ roi_zones[1].name = "entrance_zone"
    /\ roi_zones[1].points = <<<<1, 0>>, <<2, 1>>, <<1, 2>>, <<0, 1>>>>
    /\ roi_query = [x |-> 1, y |-> 1, roi_name |-> NoName]
    /\ roi_result

InAlertZone ==
    \E k \in DOMAIN roi_zones :
        /\ roi_zones[k].alert_on_entry
        /\ point_in_polygon(lastAnalytics.left + lastAnalytics.width \div 2,
                            lastAnalytics.top + lastAnalytics.height \div 2,
                            roi_zones[k].points)

\* C31: the zone_entry payload is attached to a detected object exactly
\* when the centre of its box is inside a zone that has alert_on_entry set
\* (a user meta being available from the pool).
C31_ZoneEntryIffAlertZone ==
    (lastAnalytics.called /\ lastAnalytics.pool)
        => (lastAnalytics.zone_entry <=> InAlertZone)

(***************************************************************************)
(* Claims about the DetectionSimulator                                     *)
(***************************************************************************)
\* the tracks of a camera and a class
TracksOf(c, k) ==
    {id \in DOMAIN active_detections :
        active_detections[id].camera_id = c /\ active_detections[id].class = k}

\* C27: a detection gets the id of a track that was in the table only if
\* that track was last seen less than reuse_window seconds before.
C27_ExpiredNeverReused ==
    [][ (lastDet' # NoDet /\ lastDet'.object_id \in DOMAIN active_detections)
            => sim_now - active_detections[lastDet'.object_id].last_seen < reuse_window
      ]_vars

\* a track of the table whose reuse window has elapsed
Expired(id) ==
    /\ id \in DOMAIN active_detections
    /\ sim_now - active_detections[id].last_seen >= reuse_window

C29_CounterCountsIdentities ==
    \A c \in Cameras, k \in Classes :
        CounterOf(object_counters, c, k) = Cardinality(TracksOf(c, k))

C33_CameraFailureIsolated ==
    cycle.pc = "error"
        => \A c \in cycle.jobs \ cycle.failed :
               (\E i \in DOMAIN cycle.cameras : cycle.cameras[i] = c)
                   => c \in cycle.handled

(***************************************************************************)
(* Claims about the session lifecycle of the MockStreamProcessor           *)
(***************************************************************************)
\* C18: a stop_stream call for a camera whose status is not active returns
\* False and changes nothing.
C18_StopInactiveNotFound ==
    [][ (mockOp'.op = "stop" /\ ~get_stream_status(mockOp'.cam).active)
            => /\ ~mockOp'.result
               /\ UNCHANGED <<active_streams, stream_tasks, mock_tasks, mock_dir>>
      ]_vars

\* C19: when a start_stream call returns True the camera's status is active
\* and the camera has a background task that runs; when a stop_stream call
\* returns the camera's status is not active.
C19_StartCreatesSession ==
    [][ /\ (mockOp'.op = "start" /\ mockOp'.result)
            => /\ mockOp'.cam \in DOMAIN active_streams'
               /\ active_streams'[mockOp'.cam]
               /\ mockOp'.cam \in stream_tasks'
               /\ mock_tasks'[mockOp'.cam].pc \in {"created", "sleeping"}
        /\ mockOp'.op = "stop"
            => ~(mockOp'.cam \in DOMAIN active_streams' /\ active_streams'[mockOp'.cam])
      ]_vars

\* C20: the segment files stored for a camera are those its playlist lists
\* (and the one being written), never more than the window length: at most 5
\* in a mock camera directory, and under /tmp exactly the segments of the
\* StreamManager playlists.
C20_StoredEqualsListed ==
    /\ \A c \in Cameras :
        LET listed == {SegmentVals(mock_dir[c].playlist)[k] :
                          k \in DOMAIN SegmentVals(mock_dir[c].playlist)}
        IN /\ Cardinality(mock_dir[c].segments) <= 5
           /\ mock_dir[c].segments \ listed \subseteq {mock_tasks[c].segment_index}
    /\ hls_files = UNION {{hls_playlists[c][k].segment_id : k \in DOMAIN hls_playlists[c]} :
                             c \in DOMAIN hls_playlists}

C16_StartRetriesOpen ==
    [][ (/\ lastOp'.op = "start"
         /\ lastOp'.cam \notin DOMAIN streams
         /\ source_fails' < reconnect_attempts)
            => /\ lastOp'.result
               /\ lastOp'.cam \in DOMAIN streams'
               /\ procs'[streams'[lastOp'.cam]].is_connected
      ]_vars

\* C17: on a registered, connected processor a step that delivers a frame
\* leaves error_count at 0, any other step keeps error_count or adds one to
\* it, and the processor is torn down by a read only when that read brings
\* error_count from reconnect_attempts - 1 to reconnect_attempts; so a
\* connected processor always has fewer than reconnect_attempts errors.
C17_SuccessResetsErrors ==
    [][ \A i \in Pids :
            (Registered(streams, i) /\ procs[i].is_connected /\ Registered(streams', i)
             /\ procs'[i].camera = procs[i].camera)
                => /\ procs[i].error_count < reconnect_attempts
                   /\ procs'[i].frame_count > procs[i].frame_count
                        => procs'[i].error_count = 0
                   /\ procs'[i].frame_count = procs[i].frame_count
                        => procs'[i].error_count \in
                             {procs[i].error_count, procs[i].error_count + 1}
                   /\ (~procs'[i].is_connected)
                        => /\ procs[i].error_count = reconnect_attempts - 1
                           /\ procs'[i].error_count = reconnect_attempts
      ]_vars

\* a processor that delivered frames after its connect and has since failed
\* reconnect_attempts - 1 reads in a row is still connected
C17_Witness ==
    \E c \in DOMAIN streams :
        /\ procs[streams[c]].is_connected
        /\ procs[streams[c]].frame_count = MaxFrames
        /\ procs[streams[c]].error_count = reconnect_attempts - 1

\* C11: a message whose body does not parse is never negative-
\* acknowledged, and the step that handles it acknowledges it.
C11_MalformedDroppedAndAcked ==
    \A m \in Msgs :
        ~Payload(m).json
            => /\ nacks[m] = 0
               /\ lastIngest.msg = m => (lastIngest.settle = "ack" /\ mq[m] = "acked")

\* the messages that name a camera or a job the store does not hold
OrphanMsgs ==
    {m \in Msgs : /\ Payload(m).json
                  /\ Payload(m).camera_id # None /\ Payload(m).analytics_job_id # None
                  /\ \/ Payload(m).camera_id \notin StoreCameras
                     \/ Payload(m).analytics_job_id \notin StoreJobs}

C13_PersistRepublishAck ==
    \A m \in Msgs \ (InvalidMsgs \cup OrphanMsgs) :
        (Payload(m).json /\ lastIngest.msg = m /\ lastIngest.store = "ok")
            => /\ lastIngest.settle = "ack"
               /\ alerts[m] > 0
               /\ m \in republished

\* C14: whenever the consumer has no subscription, the next pass of the loop
\* can call connect again.
C14_ReconnectAfterFailure ==
    ~consumer => ENABLED Connect

(***************************************************************************)
(* Specifications                                                          *)
(***************************************************************************)
\* the state after construction of the module-level singletons
Init == InitStream /\ InitMock /\ InitWs /\ InitIngest /\ InitRoi /\ InitSim

SpecStream == Init /\ [][NextStream]_vars

\* the event loop resumes every task whose sleep has ended
FairSpecStream == SpecStream /\ \A t \in Pids : WF_vars(TaskStep(t))

\* the same for the sessions of one camera
FairSpecSession ==
    Init /\ [][NextSession]_vars /\ \A t \in Pids : WF_vars(TaskStep(t))

\* one camera started with sources that open late
SpecOpen == Init /\ [][NextOpen]_vars

\* cameras started with a StreamConfig object of the caller
SpecConfig == Init /\ [][NextConfig]_vars

SpecMock == Init /\ [][NextMock]_vars
SpecPublish == Init /\ [][NextPublish]_vars
SpecWs == Init /\ [][NextWs]_vars
SpecEvent == Init /\ [][NextEvent]_vars
SpecIngest == Init /\ [][NextIngest]_vars
SpecSettle == Init /\ [][NextSettle]_vars

\* the ROI test on every configuration file with at most one zone
InitLoaded ==
    InitStream /\ InitMock /\ InitWs /\ InitIngest /\ InitRoiLoaded /\ InitSim
SpecRoi == InitLoaded /\ [][NextRoi]_vars

\* the analytics on every configuration file with at most MaxZones zones
InitConfigured ==
    InitStream /\ InitMock /\ InitWs /\ InitIngest /\ InitRoiConfigured /\ InitSim
SpecAnalytics == InitConfigured /\ [][NextAnalytics]_vars

SpecSim == Init /\ [][NextSim]_vars
SpecCycle == Init /\ [][NextCycle]_vars
\* run_simulation loops while is_running: each pass detects, then sleeps
FairSpecSim == SpecSim /\ WF_vars(SimulateDetection) /\ WF_vars(Sleep)

Next ==
    \/ NextStream \/ NextConfig \/ NextMock \/ NextWs \/ NextEvent \/ NextIngest \/ NextSettle
    \/ NextRoi \/ NextAnalytics \/ NextSim \/ NextCycle
Spec == Init /\ [][Next]_vars
====
